---- MODULE Spec2Model ----
(***************************************************************************)
(* A model of the WebAssembly binary codec of src/src/mods/wasm/mod.ts:    *)
(* the LEB128 codecs, the instruction codec, the section codecs and the    *)
(* module framing, as pure operators over byte sequences, driven by small  *)
(* state machines (SpecLeb for the integer codecs, SpecLoop for their      *)
(* loops one iteration at a time, Spec for whole modules).                 *)
(*                                                                         *)
(* Numbers.  The code computes LEB128 on JavaScript BigInt and stores      *)
(* 32/33-bit fields as JavaScript numbers.  The values reach 2^70, beyond  *)
(* the integers of the model checker, so an integer is kept as its         *)
(* infinite two's complement expansion in base 128:                        *)
(*     [digits |-> <<d0, d1, ...>>, ext |-> 0 or 127]                      *)
(* d0 is the least significant 7-bit digit and ext is the digit repeated   *)
(* for ever above the last one (0: non-negative, 127: negative).  The     *)
(* representation is kept normal (the last digit differs from ext), so     *)
(* equality of values is equality of records.                              *)
(***************************************************************************)
EXTENDS Integers, Sequences, FiniteSets, TLC

VARIABLES
  \* ---- the LEB128 harness (SpecLeb)
  lebPc,      \* position of the harness
  lebCodec,   \* "U32" | "I32" | "I33" | "U64" | "I64"
  lebValue,   \* the value given to the constructor (new LEB128.X(value))
  lebSize,    \* result of sizeOrThrow()
  lebBytes,   \* the bytes written, or the raw bytes to read
  lebTail,    \* bytes that follow the written bytes in the read buffer
  lebRes,     \* result of X.readOrThrow(cursor)
  lebLoop,    \* the local `value` of the loop under way (SpecLoop)
  \* ---- the module harness (Spec)
  pc,         \* position of the harness
  input,      \* the bytes given to Module.readOrThrow
  module,     \* result of Module.readOrThrow(input)
  mutated,    \* TRUE once the host assigned a field of the decoded module
  size,       \* result of module.sizeOrThrow()
  output,     \* result of Writable.writeToBytesOrThrow(module)
  module2,    \* result of Module.readOrThrow(output)
  nanBits     \* the NaN encodings this engine's DataView writes

lebVars == <<lebPc, lebCodec, lebValue, lebSize, lebBytes, lebTail, lebRes,
            lebLoop>>
modVars == <<pc, input, module, mutated, size, output, module2, nanBits>>
vars == <<lebPc, lebCodec, lebValue, lebSize, lebBytes, lebTail, lebRes, lebLoop,
          pc, input, module, mutated, size, output, module2, nanBits>>

(***************************************************************************)
(* BigInt arithmetic used by the code                                      *)
(***************************************************************************)

\* ds without its trailing elements equal to ext
StripExt(ds, ext) ==
  LET keep == { i \in 1..Len(ds) : ds[i] # ext }
  IN IF keep = {} THEN <<>>
     ELSE SubSeq(ds, 1, CHOOSE i \in keep : \A j \in keep : j <= i)

\* the integer with the given low digits and sign extension, normalised
Big(ds, ext) == [digits |-> StripExt(ds, ext), ext |-> ext]

RECURSIVE NatDigits(_)
NatDigits(n) == IF n = 0 THEN <<>> ELSE <<n % 128>> \o NatDigits(n \div 128)

\* a small non-negative integer of the model as a value of the code
Nat2Big(n) == Big(NatDigits(n), 0)

BigZero == Big(<<>>, 0)
BigMinusOne == Big(<<>>, 127)

\* value & 0x7Fn
Low7(value) == IF value.digits = <<>> THEN value.ext ELSE Head(value.digits)

\* value >> 7n (arithmetic shift: the sign extension stays)
Shr7(value) ==
  IF value.digits = <<>> THEN value
  ELSE [digits |-> Tail(value.digits), ext |-> value.ext]

\* value | (BigInt(digit) << shift), for a value below 2^shift and shift a
\* multiple of 7: the digit lands above every digit accumulated so far
OrShl(ds, digit, shift) ==
  LET pad == [i \in 1..((shift \div 7) - Len(ds)) |-> 0]
  IN (ds \o pad) \o <<digit>>

Pow2(n) == IF n = 0 THEN 1 ELSE IF n = 1 THEN 2 ELSE IF n = 2 THEN 4
           ELSE IF n = 3 THEN 8 ELSE IF n = 4 THEN 16 ELSE IF n = 5 THEN 32
           ELSE 64

\* value > 2^n - 1, i.e. a non-negative value with a bit set at position >= n
ExceedsBits(value, n) ==
  /\ value.ext = 0
  /\ \E i \in 1..Len(value.digits) :
       LET lo == 7 * (i - 1) IN
       IF lo >= n THEN value.digits[i] # 0
       ELSE IF lo + 6 >= n THEN value.digits[i] \div Pow2(n - lo) # 0
       ELSE FALSE

\* value < -2^n, i.e. a negative value with a bit clear at position >= n
BelowBits(value, n) ==
  /\ value.ext = 127
  /\ \E i \in 1..Len(value.digits) :
       LET lo == 7 * (i - 1) IN
       IF lo >= n THEN value.digits[i] # 127
       ELSE IF lo + 6 >= n
         THEN value.digits[i] \div Pow2(n - lo) # 127 \div Pow2(n - lo)
       ELSE FALSE

RECURSIVE DigitsVal(_)
DigitsVal(ds) == IF ds = <<>> THEN 0 ELSE Head(ds) + 128 * DigitsVal(Tail(ds))

\* i < n for a loop counter i of the model and a count n of the code
NatLtBig(i, n) ==
  IF n.ext = 127 THEN FALSE
  ELSE IF Len(n.digits) > 4 THEN TRUE
  ELSE i < DigitsVal(n.digits)

\* ---- Number(value): the nearest IEEE-754 double, ties to even

\* the bits of the digits, least significant bit first
DigitsToBits(ds) ==
  [k \in 1..(7 * Len(ds)) |-> (ds[((k - 1) \div 7) + 1] \div Pow2((k - 1) % 7)) % 2]

\* the digits of the bits, the last digit padded with zero bits
BitsToDigits(bs) ==
  LET bit(k) == IF k <= Len(bs) THEN bs[k] ELSE 0
  IN [i \in 1..((Len(bs) + 6) \div 7) |->
        bit(7*i - 6) + 2 * bit(7*i - 5) + 4 * bit(7*i - 4) + 8 * bit(7*i - 3)
        + 16 * bit(7*i - 2) + 32 * bit(7*i - 1) + 64 * bit(7*i)]

\* bits + 1, least significant bit first: the lowest zero bit becomes one
\* and the ones below it become zero
IncBits(bs) ==
  LET zeros == { i \in 1..Len(bs) : bs[i] = 0 }
  IN IF zeros = {} THEN [i \in 1..Len(bs) |-> 0] \o <<1>>
     ELSE LET k == CHOOSE i \in zeros : \A j \in zeros : i <= j
          IN [i \in 1..Len(bs) |-> IF i < k THEN 0 ELSE IF i = k THEN 1 ELSE bs[i]]

\* ~m on the bits of m
Complement(bits) == [k \in 1..Len(bits) |-> 1 - bits[k]]

\* -m = ~m + 1 in two's complement, within the width of the bits
Negate(bits) == SubSeq(IncBits(Complement(bits)), 1, Len(bits))

\* the magnitude of a value, as bits without leading zeros
Magnitude(value) ==
  StripExt(IF value.ext = 0 THEN DigitsToBits(value.digits)
           ELSE IncBits(Complement(DigitsToBits(value.digits))), 0)

\* the value with the given magnitude bits and sign
FromMagnitude(bits, negative) ==
  IF ~negative THEN Big(BitsToDigits(bits), 0)
  ELSE IF bits = <<>> THEN BigZero
  ELSE Big(BitsToDigits(Negate(DigitsToBits(BitsToDigits(bits))
                                 \o <<0, 0, 0, 0, 0, 0, 0>>)), 127)

MantissaBits == 53

\* the magnitude m, of more than 53 bits, rounded to its 53 leading bits
Round(m) ==
  LET shift == Len(m) - MantissaBits
      half == m[shift]
      sticky == \E k \in 1..(shift - 1) : m[k] = 1
      kept == SubSeq(m, shift + 1, Len(m))
      up == half = 1 /\ (sticky \/ kept[1] = 1)
  IN [k \in 1..shift |-> 0] \o (IF up THEN IncBits(kept) ELSE kept)

Number(value) ==
  IF Len(Magnitude(value)) <= MantissaBits THEN value
  ELSE FromMagnitude(Round(Magnitude(value)), value.ext = 127)

\* BigInt(number) of an integral number
BigInt(number) == number

(***************************************************************************)
(* The byte cursor (@hazae41/cursor) and Readable/Writable                 *)
(* (@hazae41/binary).  A cursor is [bytes, offset, minimal]; minimal is a  *)
(* history field of the model: it stays TRUE while every LEB128 integer    *)
(* read through the cursor was in its shortest form.  A read returns       *)
(* [ok |-> TRUE, v |-> value, c |-> cursor after] or, for a throw,         *)
(* [ok |-> FALSE, v |-> message].                                          *)
(***************************************************************************)

Ok(v, c) == [ok |-> TRUE, v |-> v, c |-> c]
Throw(message) == [ok |-> FALSE, v |-> message]

\* a call that may throw, then the rest of the function: K(r) after a
\* result r, or the throw itself, which ends the function
Then(r, K(_)) == IF r.ok THEN K(r) ELSE r

\* X.readOrThrow(cursor), the static method of the class named X
RECURSIVE Read(_, _)

Cursor(bytes) == [bytes |-> bytes, offset |-> 0, minimal |-> TRUE]

remaining(c) == Len(c.bytes) - c.offset

readUint8OrThrow(c) ==
  IF remaining(c) < 1 THEN Throw("CursorReadLengthOverflowError")
  ELSE Ok(c.bytes[c.offset + 1], [c EXCEPT !.offset = @ + 1])

\* cursor.readOrThrow(length) for a length of the model
readNatOrThrow(c, n) ==
  IF remaining(c) < n THEN Throw("CursorReadLengthOverflowError")
  ELSE Ok(SubSeq(c.bytes, c.offset + 1, c.offset + n), [c EXCEPT !.offset = @ + n])

\* cursor.readOrThrow(length) for a length decoded by the code
readOrThrow(c, length) ==
  IF length.ext = 127 \/ Len(length.digits) > 4
    THEN Throw("CursorReadLengthOverflowError")
    ELSE readNatOrThrow(c, DigitsVal(length.digits))

(***************************************************************************)
(* LEB128                                                                  *)
(***************************************************************************)

\* ---- U64 (mod.ts 2524-2590)

RECURSIVE U64_sizeLoop(_)
U64_sizeLoop(value) ==
  LET value2 == Shr7(value)
  IN IF value2 # BigZero THEN 1 + U64_sizeLoop(value2) ELSE 1

U64_sizeOrThrow(this) == U64_sizeLoop(this)

RECURSIVE U64_writeLoop(_)
U64_writeLoop(value) ==
  LET byte == Low7(value)
      value2 == Shr7(value)
  IN IF value2 # BigZero THEN <<byte + 128>> \o U64_writeLoop(value2)
     ELSE <<byte>>

U64_writeOrThrow(this) == U64_writeLoop(this)

\* the do-while loop shared, copy by copy, by the five readOrThrow
RECURSIVE LEB128_readLoop(_, _, _)
LEB128_readLoop(c, value, shift) ==
  Then(readUint8OrThrow(c), LAMBDA b :
    LET value2 == OrShl(value, b.v % 128, shift)
        shift2 == shift + 7
    IN IF b.v >= 128 /\ shift2 < 70
       THEN LEB128_readLoop(b.c, value2, shift2)
       ELSE Ok([value |-> value2, shift |-> shift2, byte |-> b.v], b.c))

\* a sign extension that tests the continuation bit instead of bit 6
SignExtend_bit7(r) ==
  IF r.byte \div 128 = 1 THEN Big(r.value, 127) ELSE Big(r.value, 0)

\* value |= (-1n << shift) when bit 6 of the last byte is set
SignExtend(r) ==
  IF (r.byte \div 64) % 2 = 1 THEN Big(r.value, 127) ELSE Big(r.value, 0)

U64_readOrThrow(c) ==
  Then(LEB128_readLoop(c, <<>>, 0), LAMBDA r :
    LET value == Big(r.v.value, 0)
    IN IF ExceedsBits(value, 64) THEN Throw("Value exceeds U64 range")
       ELSE Ok(value, [r.c EXCEPT !.minimal =
        @ /\ SubSeq(c.bytes, c.offset + 1, r.c.offset) = U64_writeOrThrow(value)]))

\* ---- I64 (mod.ts 2592-2671)

RECURSIVE I64_sizeLoop(_)
I64_sizeLoop(value) ==
  LET byte == Low7(value)
      value2 == Shr7(value)
  IN IF (value2 = BigZero /\ (byte \div 64) % 2 = 0)
        \/ (value2 = BigMinusOne /\ (byte \div 64) % 2 # 0)
       THEN 1
       ELSE 1 + I64_sizeLoop(value2)

I64_sizeOrThrow(this) == I64_sizeLoop(this)

RECURSIVE I64_writeLoop(_)
I64_writeLoop(value) ==
  LET byte == Low7(value)
      value2 == Shr7(value)
  IN IF (value2 = BigZero /\ (byte \div 64) % 2 = 0)
        \/ (value2 = BigMinusOne /\ (byte \div 64) % 2 # 0)
       THEN <<byte>>
       ELSE <<byte + 128>> \o I64_writeLoop(value2)

I64_writeOrThrow(this) == I64_writeLoop(this)

I64_readOrThrow(c) ==
  Then(LEB128_readLoop(c, <<>>, 0), LAMBDA r :
    LET value == SignExtend(r.v)
    IN IF ExceedsBits(value, 63) THEN Throw("Value exceeds I64 range")
       ELSE Ok(value, [r.c EXCEPT !.minimal =
        @ /\ SubSeq(c.bytes, c.offset + 1, r.c.offset) = I64_writeOrThrow(value)]))

\* ---- U32 (mod.ts 2673-2739)

RECURSIVE U32_sizeLoop(_)
U32_sizeLoop(value) ==
  LET value2 == Shr7(value)
  IN IF value2 # BigZero THEN 1 + U32_sizeLoop(value2) ELSE 1

U32_sizeOrThrow(this) == U32_sizeLoop(BigInt(this))

RECURSIVE U32_writeLoop(_)
U32_writeLoop(value) ==
  LET byte == Low7(value)
      value2 == Shr7(value)
  IN IF value2 # BigZero THEN <<byte + 128>> \o U32_writeLoop(value2)
     ELSE <<byte>>

U32_writeOrThrow_noZeroByte(this) ==
  IF this = BigZero THEN <<>> ELSE U32_writeLoop(this)

U32_writeOrThrow(this) == U32_writeLoop(BigInt(this))

\* a range check against the signed limit 2^31 - 1
U32_readOrThrow_signedLimit(c) ==
  Then(LEB128_readLoop(c, <<>>, 0), LAMBDA r :
    LET value == Big(r.v.value, 0)
    IN IF ExceedsBits(value, 31) THEN Throw("Value exceeds U32 range")
       ELSE Ok(Number(value), r.c))

\* a range check one bit too wide
U32_readOrThrow_limit33(c) ==
  Then(LEB128_readLoop(c, <<>>, 0), LAMBDA r :
    LET value == Big(r.v.value, 0)
    IN IF ExceedsBits(value, 33) THEN Throw("Value exceeds U32 range")
       ELSE Ok(Number(value), r.c))

U32_readOrThrow(c) ==
  Then(LEB128_readLoop(c, <<>>, 0), LAMBDA r :
    LET value == Big(r.v.value, 0)
    IN IF ExceedsBits(value, 32) THEN Throw("Value exceeds U32 range")
       ELSE Ok(Number(value), [r.c EXCEPT !.minimal =
        @ /\ SubSeq(c.bytes, c.offset + 1, r.c.offset) = U64_writeOrThrow(value)]))

\* ---- I32 (mod.ts 2741-2820)

RECURSIVE I32_sizeLoop(_)
I32_sizeLoop(value) ==
  LET byte == Low7(value)
      value2 == Shr7(value)
  IN IF (value2 = BigZero /\ (byte \div 64) % 2 = 0)
        \/ (value2 = BigMinusOne /\ (byte \div 64) % 2 # 0)
       THEN 1
       ELSE 1 + I32_sizeLoop(value2)

I32_sizeOrThrow(this) == I32_sizeLoop(BigInt(this))

RECURSIVE I32_writeLoop(_)
I32_writeLoop(value) ==
  LET byte == Low7(value)
      value2 == Shr7(value)
  IN IF (value2 = BigZero /\ (byte \div 64) % 2 = 0)
        \/ (value2 = BigMinusOne /\ (byte \div 64) % 2 # 0)
       THEN <<byte>>
       ELSE <<byte + 128>> \o I32_writeLoop(value2)

I32_writeOrThrow(this) == I32_writeLoop(BigInt(this))

I32_readOrThrow(c) ==
  Then(LEB128_readLoop(c, <<>>, 0), LAMBDA r :
    LET value == SignExtend(r.v)
    IN IF ExceedsBits(value, 31) THEN Throw("Value exceeds I32 range")
       ELSE Ok(Number(value), [r.c EXCEPT !.minimal =
        @ /\ SubSeq(c.bytes, c.offset + 1, r.c.offset) = I64_writeOrThrow(value)]))

\* ---- I33 (mod.ts 2822-2901)

RECURSIVE I33_sizeLoop(_)
I33_sizeLoop(value) ==
  LET byte == Low7(value)
      value2 == Shr7(value)
  IN IF (value2 = BigZero /\ (byte \div 64) % 2 = 0)
        \/ (value2 = BigMinusOne /\ (byte \div 64) % 2 # 0)
       THEN 1
       ELSE 1 + I33_sizeLoop(value2)

\* a size loop that forgets the sign bit of the last byte
RECURSIVE I33_sizeLoop_noSignBit(_)
I33_sizeLoop_noSignBit(value) ==
  LET value2 == Shr7(value)
  IN IF value2 = BigZero \/ value2 = BigMinusOne THEN 1
     ELSE 1 + I33_sizeLoop_noSignBit(value2)

I33_sizeOrThrow_noSignBit(this) == I33_sizeLoop_noSignBit(BigInt(this))

I33_sizeOrThrow(this) == I33_sizeLoop(BigInt(this))

RECURSIVE I33_writeLoop(_)
I33_writeLoop(value) ==
  LET byte == Low7(value)
      value2 == Shr7(value)
  IN IF (value2 = BigZero /\ (byte \div 64) % 2 = 0)
        \/ (value2 = BigMinusOne /\ (byte \div 64) % 2 # 0)
       THEN <<byte>>
       ELSE <<byte + 128>> \o I33_writeLoop(value2)

I33_writeOrThrow(this) == I33_writeLoop(BigInt(this))

I33_readOrThrow(c) ==
  Then(LEB128_readLoop(c, <<>>, 0), LAMBDA r :
    LET value == SignExtend(r.v)
    IN IF ExceedsBits(value, 32) THEN Throw("Value exceeds I33 range")
       ELSE Ok(Number(value), [r.c EXCEPT !.minimal =
        @ /\ SubSeq(c.bytes, c.offset + 1, r.c.offset) = I64_writeOrThrow(value)]))

(***************************************************************************)
(* Scalar primitives (mod.ts 2905-2975) and the fixed-width cursor reads   *)
(***************************************************************************)

\* an immediate of an instruction: the class of the Writable and its value
Param(type, value) == [type |-> type, value |-> value]

U8_sizeOrThrow(this) == 1
U8_writeOrThrow(this) == <<this>>

U8_readOrThrow(c) == readUint8OrThrow(c)

\* the bits of the bytes, least significant bit first
BytesToBits(bytes) ==
  [k \in 1..(8 * Len(bytes)) |->
     (bytes[((k - 1) \div 8) + 1]
        \div (IF (k - 1) % 8 = 7 THEN 128 ELSE Pow2((k - 1) % 8))) % 2]

\* cursor.readUint32OrThrow(true): 4 bytes, little-endian
readUint32OrThrow(c) ==
  Then(readNatOrThrow(c, 4), LAMBDA r :
    Ok(Big(BitsToDigits(BytesToBits(r.v)), 0), r.c))

\* cursor.writeUint32OrThrow(value, true): the low 32 bits, little-endian
writeUint32OrThrow(value) ==
  LET bits == DigitsToBits(value.digits)
      bit(k) == IF k <= Len(bits) THEN bits[k] ELSE value.ext % 2
  IN [j \in 1..4 |->
        bit(8*j - 7) + 2 * bit(8*j - 6) + 4 * bit(8*j - 5) + 8 * bit(8*j - 4)
        + 16 * bit(8*j - 3) + 32 * bit(8*j - 2) + 64 * bit(8*j - 1)
        + 128 * bit(8*j)]

\* IEEE-754 binary32, little-endian: exponent all ones, fraction not zero
IsNaN32(b) ==
  /\ b[4] % 128 = 127
  /\ b[3] >= 128
  /\ (b[3] % 128 # 0 \/ b[2] # 0 \/ b[1] # 0)

\* IEEE-754 binary64, little-endian
IsNaN64(b) ==
  /\ b[8] % 128 = 127
  /\ b[7] \div 16 = 15
  /\ (b[7] % 16 # 0 \/ \E k \in 1..6 : b[k] # 0)

\* A float is kept as the bit pattern that names it; a NaN is one value,
\* whatever its payload (a JavaScript number does not carry one reliably).
Float(isNaN, bits) == [nan |-> isNaN, bits |-> IF isNaN THEN <<>> ELSE bits]

\* cursor.readFloat32OrThrow(true)
readFloat32OrThrow(c) ==
  Then(readNatOrThrow(c, 4), LAMBDA r :
    Ok(Float(IsNaN32(r.v), r.v), r.c))

\* cursor.readFloat64OrThrow(true)
readFloat64OrThrow(c) ==
  Then(readNatOrThrow(c, 8), LAMBDA r :
    Ok(Float(IsNaN64(r.v), r.v), r.c))

\* cursor.writeFloat32OrThrow(value, true): for a NaN the engine chooses
\* the encoding (ECMAScript NumericToRawBytes)
writeFloat32OrThrow(value) == IF value.nan THEN nanBits.f32 ELSE value.bits

\* cursor.writeFloat64OrThrow(value, true)
writeFloat64OrThrow(value) == IF value.nan THEN nanBits.f64 ELSE value.bits

F32_sizeOrThrow(this) == 4
F32_writeOrThrow(this) == writeFloat32OrThrow(this)
F32_readOrThrow(c) == readFloat32OrThrow(c)

F64_sizeOrThrow(this) == 8
F64_writeOrThrow(this) == writeFloat64OrThrow(this)
F64_readOrThrow(c) == readFloat64OrThrow(c)

\* param.sizeOrThrow() by the class of the Writable
Param_sizeOrThrow(param) ==
  CASE param.type = "U8" -> U8_sizeOrThrow(param.value)
    [] param.type = "U32" -> U32_sizeOrThrow(param.value)
    [] param.type = "I32" -> I32_sizeOrThrow(param.value)
    [] param.type = "I33" -> I33_sizeOrThrow(param.value)
    [] param.type = "U64" -> U64_sizeOrThrow(param.value)
    [] param.type = "I64" -> I64_sizeOrThrow(param.value)
    [] param.type = "F32" -> F32_sizeOrThrow(param.value)
    [] param.type = "F64" -> F64_sizeOrThrow(param.value)

\* param.writeOrThrow(cursor) by the class of the Writable
Param_writeOrThrow(param) ==
  CASE param.type = "U8" -> U8_writeOrThrow(param.value)
    [] param.type = "U32" -> U32_writeOrThrow(param.value)
    [] param.type = "I32" -> I32_writeOrThrow(param.value)
    [] param.type = "I33" -> I33_writeOrThrow(param.value)
    [] param.type = "U64" -> U64_writeOrThrow(param.value)
    [] param.type = "I64" -> I64_writeOrThrow(param.value)
    [] param.type = "F32" -> F32_writeOrThrow(param.value)
    [] param.type = "F64" -> F64_writeOrThrow(param.value)

\* X.readOrThrow(cursor) wrapped as a Writable of class X
Param_readOrThrow(type, c) ==
  Then(Read(type, c), LAMBDA r : Ok(Param(type, r.v), r.c))

(***************************************************************************)
(* Sequences of the code: for-of loops over arrays                         *)
(***************************************************************************)

RECURSIVE Concat(_)
Concat(seqs) == IF seqs = <<>> THEN <<>> ELSE Head(seqs) \o Concat(Tail(seqs))

RECURSIVE Sum(_)
Sum(ns) == IF ns = <<>> THEN 0 ELSE Head(ns) + Sum(Tail(ns))

\* for (const x of xs) Write(x)
WriteEach(Write(_), xs) == Concat([i \in 1..Len(xs) |-> Write(xs[i])])

\* for (const x of xs) size += Size(x)
SizeEach(Size(_), xs) == Sum([i \in 1..Len(xs) |-> Size(xs[i])])

\* for (let i = 0; i < count.value; i++) array.push(ReadOne(cursor))
RECURSIVE ReadEach(_, _, _, _, _)
ReadEach(ReadOne(_), c, count, i, array) ==
  IF ~NatLtBig(i, count) THEN Ok(array, c)
  ELSE Then(ReadOne(c), LAMBDA r :
    ReadEach(ReadOne, r.c, count, i + 1, Append(array, r.v)))

\* new LEB128.U32(array.length)
Length(array) == Nat2Big(Len(array))

(***************************************************************************)
(* Instruction (mod.ts 2186-2520)                                          *)
(***************************************************************************)

Instruction(opcode, params) == [opcode |-> opcode, params |-> params]

Instruction_sizeOrThrow(this) == 1 + SizeEach(Param_sizeOrThrow, this.params)

Instruction_writeOrThrow(this) ==
  <<this.opcode>> \o WriteEach(Param_writeOrThrow, this.params)

\* the immediates read one after the other, in the order of the array literal
RECURSIVE ReadParams(_, _, _)
ReadParams(c, types, params) ==
  IF types = <<>> THEN Ok(params, c)
  ELSE Then(Param_readOrThrow(Head(types), c), LAMBDA r :
    ReadParams(r.c, Tail(types), Append(params, r.v)))

\* return new Instruction(opcode, [X.readOrThrow(cursor), ...])
ReadInstruction(opcode, c, types) ==
  Then(ReadParams(c, types, <<>>), LAMBDA r :
    Ok(Instruction(opcode, r.v), r.c))

\* the tag index read whatever the kind
CatchClause_readOrThrow_alwaysTag(c) ==
  Then(readUint8OrThrow(c), LAMBDA kind :
    ReadParams(kind.c, <<"U32", "U32">>, <<Param("U8", kind.v)>>))

\* one catch clause of try_table (mod.ts 2282-2291)
CatchClause_readOrThrow(c) ==
  Then(readUint8OrThrow(c), LAMBDA kind :
    ReadParams(kind.c,
               IF kind.v < 2 THEN <<"U32", "U32">> ELSE <<"U32">>,
               <<Param("U8", kind.v)>>))

\* the fallback left unread
BrTable_readOrThrow_noFallback(opcode, c) ==
  Then(Param_readOrThrow("U32", c), LAMBDA count :
    Then(ReadEach(LAMBDA k : Param_readOrThrow("U32", k),
        count.c, count.v.value, 0, <<>>), LAMBDA labels :
      Ok(Instruction(opcode, <<count.v>> \o labels.v), labels.c)))

\* case 0x0e (mod.ts 2237-2248)
BrTable_readOrThrow(opcode, c) ==
  Then(Param_readOrThrow("U32", c), LAMBDA count :
    Then(ReadEach(LAMBDA k : Param_readOrThrow("U32", k),
        count.c, count.v.value, 0, <<>>), LAMBDA labels :
      Then(Param_readOrThrow("U32", labels.c), LAMBDA fallback :
        Ok(Instruction(opcode,
            (<<count.v>> \o labels.v) \o <<fallback.v>>),
          fallback.c))))

\* case 0x1c (mod.ts 2265-2274)
SelectTyped_readOrThrow(opcode, c) ==
  Then(Param_readOrThrow("U32", c), LAMBDA count :
    Then(ReadEach(LAMBDA k : Param_readOrThrow("U32", k),
        count.c, count.v.value, 0, <<>>), LAMBDA types :
      Ok(Instruction(opcode, <<count.v>> \o types.v), types.c)))

\* case 0x1f (mod.ts 2275-2294)
TryTable_readOrThrow(opcode, c) ==
  Then(Param_readOrThrow("I33", c), LAMBDA blocktype :
    Then(Param_readOrThrow("U32", blocktype.c), LAMBDA count :
      Then(ReadEach(CatchClause_readOrThrow, count.c,
          count.v.value, 0, <<>>), LAMBDA catches :
        Ok(Instruction(opcode,
            <<blocktype.v, count.v>> \o Concat(catches.v)),
          catches.c))))

\* every subopcode taken as one without further immediates
Prefixed_readOrThrow_anySubopcode(opcode, c) ==
  Then(Param_readOrThrow("U32", c), LAMBDA subopcode :
    Ok(Instruction(opcode, <<subopcode.v>>), subopcode.c))

\* case 0xfc (mod.ts 2479-2515)
Prefixed_readOrThrow(opcode, c) ==
  Then(Param_readOrThrow("U32", c), LAMBDA subopcode :
    LET sub == subopcode.v.value
        is(n) == sub = Nat2Big(n)
        more(types) == Then(ReadParams(subopcode.c, types, <<subopcode.v>>), LAMBDA r :
          Ok(Instruction(opcode, r.v), r.c))
    IN CASE \E n \in \h00..\h07 : is(n) -> more(<<>>)
    [] is(\h08) -> more(<<"U32", "U32">>)
    [] is(\h09) -> more(<<"U32">>)
    [] is(\h0a) -> more(<<"U32", "U32">>)
    [] is(\h0b) -> more(<<"U32">>)
    [] is(\h0c) -> more(<<"U32", "U32">>)
    [] is(\h0d) -> more(<<"U32">>)
    [] is(\h0e) -> more(<<"U32", "U32">>)
    [] is(\h0f) -> more(<<"U32">>)
    [] is(\h10) -> more(<<"U32">>)
    [] is(\h11) -> more(<<"U32">>)
    [] OTHER -> [ok |-> FALSE, v |-> "Unknown sub-opcode", at |-> sub])

Instruction_readOrThrow(c) ==
  Then(readUint8OrThrow(c), LAMBDA o :
    LET opcode == o.v
    IN CASE opcode \in {\h00, \h01} -> ReadInstruction(opcode, o.c, <<>>)
    [] opcode \in {\h02, \h03, \h04} -> ReadInstruction(opcode, o.c, <<"I33">>)
    [] opcode = \h05 -> ReadInstruction(opcode, o.c, <<>>)
    [] opcode = \h08 -> ReadInstruction(opcode, o.c, <<"U32">>)
    [] opcode = \h0a -> ReadInstruction(opcode, o.c, <<>>)
    [] opcode = \h0b -> ReadInstruction(opcode, o.c, <<>>)
    [] opcode \in {\h0c, \h0d} -> ReadInstruction(opcode, o.c, <<"U32">>)
    [] opcode = \h0e -> BrTable_readOrThrow(opcode, o.c)
    [] opcode = \h0f -> ReadInstruction(opcode, o.c, <<>>)
    [] opcode = \h10 -> ReadInstruction(opcode, o.c, <<"U32">>)
    [] opcode = \h11 -> ReadInstruction(opcode, o.c, <<"U32", "U32">>)
    [] opcode = \h12 -> ReadInstruction(opcode, o.c, <<"U32">>)
    [] opcode = \h13 -> ReadInstruction(opcode, o.c, <<"U32", "U32">>)
    [] opcode \in {\h14, \h15} -> ReadInstruction(opcode, o.c, <<"U32">>)
    [] opcode \in {\h1a, \h1b} -> ReadInstruction(opcode, o.c, <<>>)
    [] opcode = \h1c -> SelectTyped_readOrThrow(opcode, o.c)
    [] opcode = \h1f -> TryTable_readOrThrow(opcode, o.c)
    [] opcode \in \h20..\h26 -> ReadInstruction(opcode, o.c, <<"U32">>)
    [] opcode \in \h28..\h3e -> ReadInstruction(opcode, o.c, <<"U32", "U32">>)
    [] opcode \in {\h3f, \h40} -> ReadInstruction(opcode, o.c, <<"U32">>)
    [] opcode = \h41 -> ReadInstruction(opcode, o.c, <<"I32">>)
    [] opcode = \h42 -> ReadInstruction(opcode, o.c, <<"I64">>)
    [] opcode = \h43 -> ReadInstruction(opcode, o.c, <<"F32">>)
    [] opcode = \h44 -> ReadInstruction(opcode, o.c, <<"F64">>)
    [] opcode \in \h45..\hc4 -> ReadInstruction(opcode, o.c, <<>>)
    [] opcode = \hd0 -> ReadInstruction(opcode, o.c, <<"I33">>)
    [] opcode = \hd1 -> ReadInstruction(opcode, o.c, <<>>)
    [] opcode = \hd2 -> ReadInstruction(opcode, o.c, <<"U32">>)
    [] opcode \in {\hd3, \hd4} -> ReadInstruction(opcode, o.c, <<>>)
    [] opcode \in {\hd5, \hd6} -> ReadInstruction(opcode, o.c, <<"U32">>)
    [] opcode = \hfc -> Prefixed_readOrThrow(opcode, o.c)
    [] OTHER -> [ok |-> FALSE, v |-> "Unknown opcode", at |-> opcode])

RECURSIVE ConstExpr_readOrThrow_dropEnd(_, _)
ConstExpr_readOrThrow_dropEnd(c, instructions) ==
  Then(Read("Instruction", c), LAMBDA r :
    IF r.v.opcode = \h0b THEN Ok(instructions, r.c)
    ELSE ConstExpr_readOrThrow_dropEnd(r.c, Append(instructions, r.v)))

\* while (true) { push(Instruction.readOrThrow(cursor)); if (opcode === 0x0b) break }
RECURSIVE ConstExpr_readOrThrow(_, _)
ConstExpr_readOrThrow(c, instructions) ==
  Then(Read("Instruction", c), LAMBDA r :
    IF r.v.opcode = \h0b THEN Ok(Append(instructions, r.v), r.c)
    ELSE ConstExpr_readOrThrow(r.c, Append(instructions, r.v)))

Expr_readOrThrow(c) == ConstExpr_readOrThrow(c, <<>>)

\* for (const instruction of instructions) size += instruction.sizeOrThrow()
Instructions_sizeOrThrow(instructions) ==
  SizeEach(Instruction_sizeOrThrow, instructions)

\* for (const instruction of instructions) instruction.writeOrThrow(cursor)
Instructions_writeOrThrow(instructions) ==
  WriteEach(Instruction_writeOrThrow, instructions)

(***************************************************************************)
(* Sections.  A value of a class is a record tagged with the class name.   *)
(* A Nullable<number> is <<>> (null) or <<number>>.                        *)
(***************************************************************************)

Null == <<>>
NotNull(number) == <<number>>

\* cursor.readOrThrow(LEB128.U32.readOrThrow(cursor).value)
Bytes_readOrThrow(c) ==
  Then(Read("U32", c), LAMBDA length :
    readOrThrow(length.c, length.v))

\* new LEB128.U32(bytes.length).sizeOrThrow() + bytes.length
Bytes_sizeOrThrow(bytes) == U32_sizeOrThrow(Length(bytes)) + Len(bytes)

\* new LEB128.U32(bytes.length).writeOrThrow(cursor); cursor.writeOrThrow(bytes)
Bytes_writeOrThrow(bytes) == U32_writeOrThrow(Length(bytes)) \o bytes

\* count, then the numbers: a list of U32 (typeidxs, funcidxs, subtypes)
U32List_readOrThrow(c) ==
  Then(Read("U32", c), LAMBDA count :
    ReadEach(LAMBDA k : Read("U32", k), count.c, count.v, 0, <<>>))

U32List_sizeOrThrow(numbers) ==
  U32_sizeOrThrow(Length(numbers)) + SizeEach(U32_sizeOrThrow, numbers)

U32List_writeOrThrow(numbers) ==
  U32_writeOrThrow(Length(numbers)) \o WriteEach(U32_writeOrThrow, numbers)

\* ---- UnknownSection (mod.ts 247-262)

UnknownSection(kind, data) ==
  [class |-> "UnknownSection", kind |-> kind, data |-> data]

UnknownSection_sizeOrThrow(this) == Len(this.data)
UnknownSection_writeOrThrow_zeroed(this) == [i \in 1..Len(this.data) |-> 0]

UnknownSection_writeOrThrow(this) == this.data

\* ---- CustomSection (mod.ts 264-303)

CustomSection(name, data) ==
  [class |-> "CustomSection", name |-> name, data |-> data]

CustomSection_kind == 0

CustomSection_sizeOrThrow(this) ==
  U32_sizeOrThrow(Length(this.name)) + Len(this.name) + Len(this.data)

CustomSection_writeOrThrow(this) ==
  (U32_writeOrThrow(Length(this.name)) \o this.name) \o this.data

CustomSection_readOrThrow_noData(c) ==
  Then(Read("U32", c), LAMBDA sz :
    Then(readOrThrow(sz.c, sz.v), LAMBDA name :
      Ok(CustomSection(name.v, <<>>), name.c)))

CustomSection_readOrThrow(c) ==
  Then(Read("U32", c), LAMBDA sz :
    Then(readOrThrow(sz.c, sz.v), LAMBDA name :
      Then(readNatOrThrow(name.c, remaining(name.c)), LAMBDA data :
        Ok(CustomSection(name.v, data.v), data.c))))

\* ---- TypeSection (mod.ts 305-598)

FuncType(params, results) ==
  [class |-> "FuncType", params |-> params, results |-> results]

FuncType_kind == \h60

FuncType_sizeOrThrow(this) ==
  U32_sizeOrThrow(Length(this.params)) + Len(this.params)
  + U32_sizeOrThrow(Length(this.results)) + Len(this.results)

FuncType_writeOrThrow(this) ==
  ((U32_writeOrThrow(Length(this.params)) \o this.params)
     \o U32_writeOrThrow(Length(this.results))) \o this.results

FuncType_readOrThrow(c) ==
  Then(Read("U32", c), LAMBDA pcount :
    Then(ReadEach(readUint8OrThrow, pcount.c, pcount.v, 0, <<>>), LAMBDA params :
      Then(Read("U32", params.c), LAMBDA rcount :
        Then(ReadEach(readUint8OrThrow, rcount.c,
            rcount.v, 0, <<>>), LAMBDA results :
          Ok(FuncType(params.v, results.v), results.c)))))

StructType(fields) == [class |-> "StructType", fields |-> fields]

StructType_kind == \h5E

StructType_sizeOrThrow(this) ==
  U32_sizeOrThrow(Length(this.fields)) + SizeEach(LAMBDA f : 1 + 1, this.fields)

StructType_writeOrThrow(this) ==
  U32_writeOrThrow(Length(this.fields))
    \o WriteEach(LAMBDA f : <<f[1], IF f[2] THEN 1 ELSE 0>>, this.fields)

\* [valtype, mutable]: the mutable byte is kept as (byte === 1)
Field_readOrThrow(c) ==
  Then(readUint8OrThrow(c), LAMBDA valtype :
    Then(readUint8OrThrow(valtype.c), LAMBDA mutable :
      Ok(<<valtype.v, mutable.v = 1>>, mutable.c)))

StructType_readOrThrow(c) ==
  Then(Read("U32", c), LAMBDA count :
    Then(ReadEach(Field_readOrThrow, count.c, count.v, 0, <<>>), LAMBDA fields :
      Ok(StructType(fields.v), fields.c)))

ArrayType(valtype, mutable) ==
  [class |-> "ArrayType", valtype |-> valtype, mutable |-> mutable]

ArrayType_kind == \h5F

ArrayType_sizeOrThrow(this) == 1 + 1

ArrayType_writeOrThrow_immutable(this) == <<this.valtype, 0>>

ArrayType_writeOrThrow(this) == <<this.valtype, IF this.mutable THEN 1 ELSE 0>>

ArrayType_readOrThrow(c) ==
  Then(Field_readOrThrow(c), LAMBDA f :
    Ok(ArrayType(f.v[1], f.v[2]), f.c))

\* descriptor.body.kind / sizeOrThrow() / writeOrThrow(): dispatch on the class
TypeBody_kind(body) ==
  CASE body.class = "FuncType" -> FuncType_kind
    [] body.class = "StructType" -> StructType_kind
    [] body.class = "ArrayType" -> ArrayType_kind

TypeBody_sizeOrThrow(body) ==
  CASE body.class = "FuncType" -> FuncType_sizeOrThrow(body)
    [] body.class = "StructType" -> StructType_sizeOrThrow(body)
    [] body.class = "ArrayType" -> ArrayType_sizeOrThrow(body)

TypeBody_writeOrThrow(body) ==
  CASE body.class = "FuncType" -> FuncType_writeOrThrow(body)
    [] body.class = "StructType" -> StructType_writeOrThrow(body)
    [] body.class = "ArrayType" -> ArrayType_writeOrThrow(body)

TypeDescriptor(prefix, subtypes, body) ==
  [prefix |-> prefix, subtypes |-> subtypes, body |-> body]

TypeSection(descriptors) ==
  [class |-> "TypeSection", descriptors |-> descriptors]

TypeSection_kind == \h01

TypeDescriptor_sizeOrThrow(descriptor) ==
  1 + (IF descriptor.prefix = FuncType_kind
         THEN TypeBody_sizeOrThrow(descriptor.body)
         ELSE (IF descriptor.prefix = \h4E \/ descriptor.prefix = \h4D
                 THEN U32List_sizeOrThrow(descriptor.subtypes)
                 ELSE 0)
              + 1 + TypeBody_sizeOrThrow(descriptor.body))

TypeSection_sizeOrThrow(this) ==
  U32_sizeOrThrow(Length(this.descriptors))
  + SizeEach(TypeDescriptor_sizeOrThrow, this.descriptors)

TypeDescriptor_writeOrThrow(descriptor) ==
  <<descriptor.prefix>>
    \o (IF descriptor.prefix = FuncType_kind
          THEN TypeBody_writeOrThrow(descriptor.body)
          ELSE ((IF descriptor.prefix = \h4E \/ descriptor.prefix = \h4D
                   THEN U32List_writeOrThrow(descriptor.subtypes)
                   ELSE <<>>)
                  \o <<TypeBody_kind(descriptor.body)>>)
                 \o TypeBody_writeOrThrow(descriptor.body))

TypeSection_writeOrThrow(this) ==
  U32_writeOrThrow(Length(this.descriptors))
    \o WriteEach(TypeDescriptor_writeOrThrow, this.descriptors)

\* the kind byte and the body, after a prefix that is not 0x60
TypeBodyOfKind_readOrThrow(c, prefix, subtypes) ==
  Then(readUint8OrThrow(c), LAMBDA kind :
    Then(CASE kind.v = FuncType_kind -> FuncType_readOrThrow(kind.c)
      [] kind.v = StructType_kind -> StructType_readOrThrow(kind.c)
      [] kind.v = ArrayType_kind -> ArrayType_readOrThrow(kind.c)
      [] OTHER -> [ok |-> FALSE, v |-> "Unknown section", at |-> kind.v], LAMBDA body :
      Ok(TypeDescriptor(prefix, subtypes, body.v), body.c)))

\* subtypes read after every prefix that is not 0x60
TypeDescriptor_readOrThrow_alwaysSubtypes(c) ==
  Then(readUint8OrThrow(c), LAMBDA prefix :
    IF prefix.v = FuncType_kind
    THEN Then(FuncType_readOrThrow(prefix.c), LAMBDA body :
      Ok(TypeDescriptor(prefix.v, <<>>, body.v), body.c))
    ELSE Then(U32List_readOrThrow(prefix.c), LAMBDA subtypes :
      TypeBodyOfKind_readOrThrow(subtypes.c, prefix.v, subtypes.v)))

TypeDescriptor_readOrThrow(c) ==
  Then(readUint8OrThrow(c), LAMBDA prefix :
    IF prefix.v = FuncType_kind
    THEN Then(FuncType_readOrThrow(prefix.c), LAMBDA body :
      Ok(TypeDescriptor(prefix.v, <<>>, body.v), body.c))
    ELSE IF prefix.v = \h4E \/ prefix.v = \h4D
    THEN Then(U32List_readOrThrow(prefix.c), LAMBDA subtypes :
      TypeBodyOfKind_readOrThrow(subtypes.c, prefix.v, subtypes.v))
    ELSE TypeBodyOfKind_readOrThrow(prefix.c, prefix.v, <<>>))

TypeSection_readOrThrow(c) ==
  Then(Read("U32", c), LAMBDA count :
    Then(ReadEach(TypeDescriptor_readOrThrow, count.c, count.v, 0, <<>>), LAMBDA types :
      Ok(TypeSection(types.v), types.c)))

\* ---- ImportSection (mod.ts 600-878)

FunctionImport(typeidx) == [class |-> "FunctionImport", typeidx |-> typeidx]

FunctionImport_kind == \h00

FunctionImport_sizeOrThrow(this) == U32_sizeOrThrow(this.typeidx)
FunctionImport_writeOrThrow(this) == U32_writeOrThrow(this.typeidx)

FunctionImport_readOrThrow(c) ==
  Then(Read("U32", c), LAMBDA typeidx :
    Ok(FunctionImport(typeidx.v), typeidx.c))

\* max read only when the flag is 1
MinMax_readOrThrow_flagOne(c, flag) ==
  Then(Read("U32", c), LAMBDA min :
    IF flag = 1
    THEN Then(Read("U32", min.c), LAMBDA max :
      Ok([min |-> min.v, max |-> NotNull(max.v)], max.c))
    ELSE Ok([min |-> min.v, max |-> Null], min.c))

\* min, then max when bit 0 of the flag is set (else null)
MinMax_readOrThrow(c, flag) ==
  Then(Read("U32", c), LAMBDA min :
    IF flag % 2 = 1
    THEN Then(Read("U32", min.c), LAMBDA max :
      Ok([min |-> min.v, max |-> NotNull(max.v)], max.c))
    ELSE Ok([min |-> min.v, max |-> Null], min.c))

\* new LEB128.U32(min).sizeOrThrow(), plus max when max != null
MinMax_sizeOrThrow_noMax(min, max) == U32_sizeOrThrow(min)

MinMax_sizeOrThrow(min, max) ==
  U32_sizeOrThrow(min) + (IF max # Null THEN U32_sizeOrThrow(max[1]) ELSE 0)

\* new LEB128.U32(min).writeOrThrow(cursor), then max when max != null
MinMax_writeOrThrow(min, max) ==
  U32_writeOrThrow(min) \o (IF max # Null THEN U32_writeOrThrow(max[1]) ELSE <<>>)

TableImport(reftype, flag, min, max) ==
  [class |-> "TableImport", reftype |-> reftype, flag |-> flag,
   min |-> min, max |-> max]

TableImport_kind == \h01

TableImport_sizeOrThrow(this) == 1 + 1 + MinMax_sizeOrThrow(this.min, this.max)

TableImport_writeOrThrow(this) ==
  <<this.reftype, this.flag>> \o MinMax_writeOrThrow(this.min, this.max)

TableImport_readOrThrow(c) ==
  Then(readUint8OrThrow(c), LAMBDA reftype :
    Then(readUint8OrThrow(reftype.c), LAMBDA flag :
      Then(MinMax_readOrThrow(flag.c, flag.v), LAMBDA mm :
        Ok(TableImport(reftype.v, flag.v, mm.v.min, mm.v.max), mm.c))))

MemoryImport(flag, min, max) ==
  [class |-> "MemoryImport", flag |-> flag, min |-> min, max |-> max]

MemoryImport_kind == \h02

MemoryImport_sizeOrThrow(this) == 1 + MinMax_sizeOrThrow(this.min, this.max)

MemoryImport_writeOrThrow(this) ==
  <<this.flag>> \o MinMax_writeOrThrow(this.min, this.max)

MemoryImport_readOrThrow(c) ==
  Then(readUint8OrThrow(c), LAMBDA flag :
    Then(MinMax_readOrThrow(flag.c, flag.v), LAMBDA mm :
      Ok(MemoryImport(flag.v, mm.v.min, mm.v.max), mm.c)))

GlobalImport(valtype, mutable) ==
  [class |-> "GlobalImport", valtype |-> valtype, mutable |-> mutable]

GlobalImport_kind == \h03

GlobalImport_sizeOrThrow(this) == 1 + 1

GlobalImport_writeOrThrow(this) == <<this.valtype, this.mutable>>

GlobalImport_readOrThrow(c) ==
  Then(readUint8OrThrow(c), LAMBDA valtype :
    Then(readUint8OrThrow(valtype.c), LAMBDA mutable :
      Ok(GlobalImport(valtype.v, mutable.v), mutable.c)))

ImportBody_kind(body) ==
  CASE body.class = "FunctionImport" -> FunctionImport_kind
    [] body.class = "TableImport" -> TableImport_kind
    [] body.class = "MemoryImport" -> MemoryImport_kind
    [] body.class = "GlobalImport" -> GlobalImport_kind

ImportBody_sizeOrThrow(body) ==
  CASE body.class = "FunctionImport" -> FunctionImport_sizeOrThrow(body)
    [] body.class = "TableImport" -> TableImport_sizeOrThrow(body)
    [] body.class = "MemoryImport" -> MemoryImport_sizeOrThrow(body)
    [] body.class = "GlobalImport" -> GlobalImport_sizeOrThrow(body)

ImportBody_writeOrThrow(body) ==
  CASE body.class = "FunctionImport" -> FunctionImport_writeOrThrow(body)
    [] body.class = "TableImport" -> TableImport_writeOrThrow(body)
    [] body.class = "MemoryImport" -> MemoryImport_writeOrThrow(body)
    [] body.class = "GlobalImport" -> GlobalImport_writeOrThrow(body)

ImportDescriptor(from, name, body) == [from |-> from, name |-> name, body |-> body]

ImportSection(descriptors) ==
  [class |-> "ImportSection", descriptors |-> descriptors]

ImportSection_kind == \h02

ImportDescriptor_sizeOrThrow(descriptor) ==
  Bytes_sizeOrThrow(descriptor.from) + Bytes_sizeOrThrow(descriptor.name)
  + 1 + ImportBody_sizeOrThrow(descriptor.body)

ImportSection_sizeOrThrow(this) ==
  U32_sizeOrThrow(Length(this.descriptors))
  + SizeEach(ImportDescriptor_sizeOrThrow, this.descriptors)

ImportDescriptor_writeOrThrow(descriptor) ==
  ((Bytes_writeOrThrow(descriptor.from) \o Bytes_writeOrThrow(descriptor.name))
     \o <<ImportBody_kind(descriptor.body)>>)
    \o ImportBody_writeOrThrow(descriptor.body)

ImportSection_writeOrThrow(this) ==
  U32_writeOrThrow(Length(this.descriptors))
    \o WriteEach(ImportDescriptor_writeOrThrow, this.descriptors)

ImportDescriptor_readOrThrow(c) ==
  Then(Bytes_readOrThrow(c), LAMBDA from :
    Then(Bytes_readOrThrow(from.c), LAMBDA name :
      Then(readUint8OrThrow(name.c), LAMBDA kind :
        Then(CASE kind.v = \h00 -> FunctionImport_readOrThrow(kind.c)
          [] kind.v = \h01 -> TableImport_readOrThrow(kind.c)
          [] kind.v = \h02 -> MemoryImport_readOrThrow(kind.c)
          [] kind.v = \h03 -> GlobalImport_readOrThrow(kind.c)
          [] OTHER -> [ok |-> FALSE, v |-> "Unknown import",
            at |-> kind.v], LAMBDA body :
          Ok(ImportDescriptor(from.v, name.v, body.v), body.c)))))

ImportSection_readOrThrow(c) ==
  Then(Read("U32", c), LAMBDA count :
    Then(ReadEach(ImportDescriptor_readOrThrow, count.c,
        count.v, 0, <<>>), LAMBDA descriptors :
      Ok(ImportSection(descriptors.v), descriptors.c)))

\* ---- FunctionSection (mod.ts 880-927)

FunctionSection(typeidxs) == [class |-> "FunctionSection", typeidxs |-> typeidxs]

FunctionSection_kind == \h03

FunctionSection_sizeOrThrow(this) ==
  U32_sizeOrThrow(Length(this.typeidxs)) + SizeEach(U32_sizeOrThrow, this.typeidxs)

FunctionSection_writeOrThrow(this) ==
  U32_writeOrThrow(Length(this.typeidxs)) \o WriteEach(U32_writeOrThrow, this.typeidxs)

FunctionSection_readOrThrow(c) ==
  Then(Read("U32", c), LAMBDA count :
    Then(ReadEach(LAMBDA k : Read("U32", k), count.c, count.v, 0, <<>>), LAMBDA typeidxs :
      Ok(FunctionSection(typeidxs.v), typeidxs.c)))

\* ---- TableSection (mod.ts 929-1011)

TableDescriptor(reftype, flag, min, max) ==
  [reftype |-> reftype, flag |-> flag, min |-> min, max |-> max]

TableSection(descriptors) == [class |-> "TableSection", descriptors |-> descriptors]

TableSection_kind == \h04

TableSection_sizeOrThrow(this) ==
  U32_sizeOrThrow(Length(this.descriptors))
  + SizeEach(LAMBDA d : 1 + 1 + MinMax_sizeOrThrow(d.min, d.max), this.descriptors)

TableSection_writeOrThrow(this) ==
  U32_writeOrThrow(Length(this.descriptors))
    \o WriteEach(LAMBDA d : <<d.reftype, d.flag>> \o MinMax_writeOrThrow(d.min, d.max),
                 this.descriptors)

TableDescriptor_readOrThrow(c) ==
  Then(readUint8OrThrow(c), LAMBDA reftype :
    Then(readUint8OrThrow(reftype.c), LAMBDA flag :
      Then(MinMax_readOrThrow(flag.c, flag.v), LAMBDA mm :
        Ok(TableDescriptor(reftype.v, flag.v, mm.v.min, mm.v.max),
          mm.c))))

TableSection_readOrThrow(c) ==
  Then(Read("U32", c), LAMBDA count :
    Then(ReadEach(TableDescriptor_readOrThrow, count.c,
        count.v, 0, <<>>), LAMBDA descriptors :
      Ok(TableSection(descriptors.v), descriptors.c)))

\* ---- MemorySection (mod.ts 1013-1088)

MemoryDescriptor(flag, min, max) == [flag |-> flag, min |-> min, max |-> max]

MemorySection(descriptors) == [class |-> "MemorySection", descriptors |-> descriptors]

MemorySection_kind == \h05

MemorySection_sizeOrThrow(this) ==
  U32_sizeOrThrow(Length(this.descriptors))
  + SizeEach(LAMBDA d : 1 + MinMax_sizeOrThrow(d.min, d.max), this.descriptors)

MemorySection_writeOrThrow(this) ==
  U32_writeOrThrow(Length(this.descriptors))
    \o WriteEach(LAMBDA d : <<d.flag>> \o MinMax_writeOrThrow(d.min, d.max),
                 this.descriptors)

MemoryDescriptor_readOrThrow(c) ==
  Then(readUint8OrThrow(c), LAMBDA flag :
    Then(MinMax_readOrThrow(flag.c, flag.v), LAMBDA mm :
      Ok(MemoryDescriptor(flag.v, mm.v.min, mm.v.max), mm.c)))

MemorySection_readOrThrow(c) ==
  Then(Read("U32", c), LAMBDA count :
    Then(ReadEach(MemoryDescriptor_readOrThrow, count.c,
        count.v, 0, <<>>), LAMBDA descriptors :
      Ok(MemorySection(descriptors.v), descriptors.c)))

\* ---- GlobalSection (mod.ts 1090-1178)

GlobalDescriptor(valtype, mutable, instructions) ==
  [valtype |-> valtype, mutable |-> mutable, instructions |-> instructions]

GlobalSection(descriptors) == [class |-> "GlobalSection", descriptors |-> descriptors]

GlobalSection_kind == \h06

GlobalSection_sizeOrThrow(this) ==
  U32_sizeOrThrow(Length(this.descriptors))
  + SizeEach(LAMBDA d : 1 + 1 + Instructions_sizeOrThrow(d.instructions),
             this.descriptors)

GlobalSection_writeOrThrow(this) ==
  U32_writeOrThrow(Length(this.descriptors))
    \o WriteEach(LAMBDA d : <<d.valtype, d.mutable>>
                              \o Instructions_writeOrThrow(d.instructions),
                 this.descriptors)

GlobalDescriptor_readOrThrow(c) ==
  Then(readUint8OrThrow(c), LAMBDA valtype :
    Then(readUint8OrThrow(valtype.c), LAMBDA mutable :
      Then(Expr_readOrThrow(mutable.c), LAMBDA instructions :
        Ok(GlobalDescriptor(valtype.v, mutable.v, instructions.v),
          instructions.c))))

GlobalSection_readOrThrow(c) ==
  Then(Read("U32", c), LAMBDA count :
    Then(ReadEach(GlobalDescriptor_readOrThrow, count.c,
        count.v, 0, <<>>), LAMBDA descriptors :
      Ok(GlobalSection(descriptors.v), descriptors.c)))

\* ---- ExportSection (mod.ts 1180-1255)

ExportDescriptor(name, kind, xidx) == [name |-> name, kind |-> kind, xidx |-> xidx]

ExportSection(descriptors) == [class |-> "ExportSection", descriptors |-> descriptors]

ExportSection_kind == \h07

ExportSection_sizeOrThrow(this) ==
  U32_sizeOrThrow(Length(this.descriptors))
  + SizeEach(LAMBDA d : U32_sizeOrThrow(Length(d.name)) + Len(d.name) + 1
                          + U32_sizeOrThrow(d.xidx),
             this.descriptors)

ExportSection_writeOrThrow(this) ==
  U32_writeOrThrow(Length(this.descriptors))
    \o WriteEach(LAMBDA d : ((U32_writeOrThrow(Length(d.name)) \o d.name)
                               \o <<d.kind>>) \o U32_writeOrThrow(d.xidx),
                 this.descriptors)

ExportDescriptor_readOrThrow(c) ==
  Then(Bytes_readOrThrow(c), LAMBDA name :
    Then(readUint8OrThrow(name.c), LAMBDA kind :
      Then(Read("U32", kind.c), LAMBDA xidx :
        Ok(ExportDescriptor(name.v, kind.v, xidx.v), xidx.c))))

ExportSection_readOrThrow(c) ==
  Then(Read("U32", c), LAMBDA count :
    Then(ReadEach(ExportDescriptor_readOrThrow, count.c,
        count.v, 0, <<>>), LAMBDA exports :
      Ok(ExportSection(exports.v), exports.c)))

\* ---- StartSection (mod.ts 1257-1285)

StartSection(funcidx) == [class |-> "StartSection", funcidx |-> funcidx]

StartSection_kind == \h08

StartSection_sizeOrThrow(this) == U32_sizeOrThrow(this.funcidx)
StartSection_writeOrThrow(this) == U32_writeOrThrow(this.funcidx)

StartSection_readOrThrow(c) ==
  Then(Read("U32", c), LAMBDA funcidx :
    Ok(StartSection(funcidx.v), funcidx.c))

\* ---- ElementSection (mod.ts 1287-1758)

\* count, then for each element the instructions up to and including 0x0b
Elements_readOrThrow(c) ==
  Then(Read("U32", c), LAMBDA count :
    ReadEach(Expr_readOrThrow, count.c, count.v, 0, <<>>))

Elements_sizeOrThrow(elements) ==
  U32_sizeOrThrow(Length(elements)) + SizeEach(Instructions_sizeOrThrow, elements)

Elements_writeOrThrow(elements) ==
  U32_writeOrThrow(Length(elements)) \o WriteEach(Instructions_writeOrThrow, elements)

ElementSection(segments) == [class |-> "ElementSection", segments |-> segments]

ElementSection_kind == \h09

\* the body of the loop of sizeOrThrow; a flag outside 0..7 adds the flag only
ElementSegment_sizeOrThrow(segment) ==
  1 + (CASE segment.flag \in {0, 4} ->
              Instructions_sizeOrThrow(segment.instructions)
              + U32List_sizeOrThrow(segment.funcidxs)
         [] segment.flag \in {1, 3} ->
              1 + Elements_sizeOrThrow(segment.elements)
         [] segment.flag = 2 ->
              U32_sizeOrThrow(segment.tableidx)
              + Instructions_sizeOrThrow(segment.instructions)
              + 1 + Elements_sizeOrThrow(segment.elements)
         [] segment.flag \in {5, 7} ->
              1 + U32List_sizeOrThrow(segment.funcidxs)
         [] segment.flag = 6 ->
              U32_sizeOrThrow(segment.tableidx)
              + Instructions_sizeOrThrow(segment.instructions)
              + 1 + U32List_sizeOrThrow(segment.funcidxs)
         [] OTHER -> 0)

ElementSection_sizeOrThrow(this) ==
  U32_sizeOrThrow(Length(this.segments))
  + SizeEach(ElementSegment_sizeOrThrow, this.segments)

\* the reftype of flags 2 and 6 written before the expression
ElementSegment_writeOrThrow_reftypeFirst(segment) ==
  <<segment.flag>>
    \o (CASE segment.flag \in {0, 4} ->
               Instructions_writeOrThrow(segment.instructions)
                 \o U32List_writeOrThrow(segment.funcidxs)
          [] segment.flag \in {1, 3} ->
               <<segment.reftype>> \o Elements_writeOrThrow(segment.elements)
          [] segment.flag = 2 ->
               ((U32_writeOrThrow(segment.tableidx) \o <<segment.reftype>>)
                  \o Instructions_writeOrThrow(segment.instructions))
                 \o Elements_writeOrThrow(segment.elements)
          [] segment.flag \in {5, 7} ->
               <<segment.reftype>> \o U32List_writeOrThrow(segment.funcidxs)
          [] segment.flag = 6 ->
               ((U32_writeOrThrow(segment.tableidx) \o <<segment.reftype>>)
                  \o Instructions_writeOrThrow(segment.instructions))
                 \o U32List_writeOrThrow(segment.funcidxs)
          [] OTHER -> <<>>)

\* the body of the loop of writeOrThrow; a flag outside 0..7 writes the flag only
ElementSegment_writeOrThrow(segment) ==
  <<segment.flag>>
    \o (CASE segment.flag \in {0, 4} ->
               Instructions_writeOrThrow(segment.instructions)
                 \o U32List_writeOrThrow(segment.funcidxs)
          [] segment.flag \in {1, 3} ->
               <<segment.reftype>> \o Elements_writeOrThrow(segment.elements)
          [] segment.flag = 2 ->
               ((U32_writeOrThrow(segment.tableidx)
                   \o Instructions_writeOrThrow(segment.instructions))
                  \o <<segment.reftype>>) \o Elements_writeOrThrow(segment.elements)
          [] segment.flag \in {5, 7} ->
               <<segment.reftype>> \o U32List_writeOrThrow(segment.funcidxs)
          [] segment.flag = 6 ->
               ((U32_writeOrThrow(segment.tableidx)
                   \o Instructions_writeOrThrow(segment.instructions))
                  \o <<segment.reftype>>) \o U32List_writeOrThrow(segment.funcidxs)
          [] OTHER -> <<>>)

ElementSection_writeOrThrow(this) ==
  U32_writeOrThrow(Length(this.segments))
    \o WriteEach(ElementSegment_writeOrThrow, this.segments)

\* flags 0 and 4: instructions, funcidxs
ElementSegment04_readOrThrow(c, flag) ==
  Then(Expr_readOrThrow(c), LAMBDA instructions :
    Then(U32List_readOrThrow(instructions.c), LAMBDA funcidxs :
      Ok([flag |-> flag, instructions |-> instructions.v,
          funcidxs |-> funcidxs.v], funcidxs.c)))

\* flags 1 and 3: reftype, elements
ElementSegment13_readOrThrow(c, flag) ==
  Then(readUint8OrThrow(c), LAMBDA reftype :
    Then(Elements_readOrThrow(reftype.c), LAMBDA elements :
      Ok([flag |-> flag, reftype |-> reftype.v,
          elements |-> elements.v], elements.c)))

\* flags 5 and 7: reftype, funcidxs
ElementSegment57_readOrThrow(c, flag) ==
  Then(readUint8OrThrow(c), LAMBDA reftype :
    Then(U32List_readOrThrow(reftype.c), LAMBDA funcidxs :
      Ok([flag |-> flag, reftype |-> reftype.v,
          funcidxs |-> funcidxs.v], funcidxs.c)))

\* flags 2 and 6: tableidx, instructions, reftype, then elements (2) or funcidxs (6)
ElementSegment26_readOrThrow(c, flag) ==
  Then(Read("U32", c), LAMBDA tableidx :
    Then(Expr_readOrThrow(tableidx.c), LAMBDA instructions :
      Then(readUint8OrThrow(instructions.c), LAMBDA reftype :
        IF flag = 2
        THEN Then(Elements_readOrThrow(reftype.c), LAMBDA elements :
          Ok([flag |-> flag, tableidx |-> tableidx.v,
              instructions |-> instructions.v,
              reftype |-> reftype.v,
              elements |-> elements.v], elements.c))
        ELSE Then(U32List_readOrThrow(reftype.c), LAMBDA funcidxs :
          Ok([flag |-> flag, tableidx |-> tableidx.v,
              instructions |-> instructions.v,
              reftype |-> reftype.v,
              funcidxs |-> funcidxs.v], funcidxs.c)))))

ElementSegment_readOrThrow(c) ==
  Then(readUint8OrThrow(c), LAMBDA flag :
    CASE flag.v \in {0, 4} -> ElementSegment04_readOrThrow(flag.c, flag.v)
    [] flag.v \in {1, 3} -> ElementSegment13_readOrThrow(flag.c, flag.v)
    [] flag.v \in {2, 6} -> ElementSegment26_readOrThrow(flag.c, flag.v)
    [] flag.v \in {5, 7} -> ElementSegment57_readOrThrow(flag.c, flag.v)
    [] OTHER -> [ok |-> FALSE, v |-> "Unknown element segment flag",
      at |-> flag.v])

ElementSection_readOrThrow(c) ==
  Then(Read("U32", c), LAMBDA count :
    Then(ReadEach(ElementSegment_readOrThrow, count.c,
        count.v, 0, <<>>), LAMBDA segments :
      Ok(ElementSection(segments.v), segments.c)))

\* ---- CodeSection (mod.ts 1760-1921)

Local(count, valtype) == [count |-> count, valtype |-> valtype]

Local_sizeOrThrow(this) == U32_sizeOrThrow(this.count) + 1

Local_writeOrThrow(this) == U32_writeOrThrow(this.count) \o <<this.valtype>>

Local_readOrThrow(c) ==
  Then(Read("U32", c), LAMBDA count :
    Then(readUint8OrThrow(count.c), LAMBDA valtype :
      Ok(Local(count.v, valtype.v), valtype.c)))

Locals_readOrThrow(c) ==
  Then(Read("U32", c), LAMBDA count :
    ReadEach(Local_readOrThrow, count.c, count.v, 0, <<>>))

FunctionBody(locals, instructions) ==
  [locals |-> locals, instructions |-> instructions]

\* the subsize computed by both sizeOrThrow and writeOrThrow
FunctionBody_subsize(this) ==
  U32_sizeOrThrow(Length(this.locals)) + SizeEach(Local_sizeOrThrow, this.locals)
  + Instructions_sizeOrThrow(this.instructions)

FunctionBody_sizeOrThrow(this) ==
  U32_sizeOrThrow(Nat2Big(FunctionBody_subsize(this))) + FunctionBody_subsize(this)

FunctionBody_writeOrThrow(this) ==
  ((U32_writeOrThrow(Nat2Big(FunctionBody_subsize(this)))
      \o U32_writeOrThrow(Length(this.locals)))
     \o WriteEach(Local_writeOrThrow, this.locals))
    \o Instructions_writeOrThrow(this.instructions)

Instructions_readOrThrow_stopAtEnd(subcursor, instructions) ==
  IF ~(remaining(subcursor) > 0) THEN Ok(instructions, subcursor)
  ELSE ConstExpr_readOrThrow(subcursor, instructions)

\* while (subcursor.remaining > 0) instructions.push(Instruction.readOrThrow(subcursor))
RECURSIVE Instructions_readOrThrow(_, _)
Instructions_readOrThrow(subcursor, instructions) ==
  IF ~(remaining(subcursor) > 0) THEN Ok(instructions, subcursor)
  ELSE Then(Read("Instruction", subcursor), LAMBDA r :
    Instructions_readOrThrow(r.c, Append(instructions, r.v)))

\* The body is read from a subcursor over the size-prefixed data; the cursor
\* itself only moves past the data.
FunctionBody_readOrThrow(c) ==
  Then(Bytes_readOrThrow(c), LAMBDA data :
    Then(Locals_readOrThrow(Cursor(data.v)), LAMBDA locals :
      Then(Instructions_readOrThrow(locals.c, <<>>), LAMBDA instructions :
        Ok(FunctionBody(locals.v, instructions.v),
          [data.c EXCEPT !.minimal = data.c.minimal
            /\ instructions.c.minimal]))))

CodeSection(bodies) == [class |-> "CodeSection", bodies |-> bodies]

CodeSection_kind == \h0A

CodeSection_sizeOrThrow(this) ==
  U32_sizeOrThrow(Length(this.bodies)) + SizeEach(FunctionBody_sizeOrThrow, this.bodies)

CodeSection_writeOrThrow(this) ==
  U32_writeOrThrow(Length(this.bodies))
    \o WriteEach(FunctionBody_writeOrThrow, this.bodies)

CodeSection_readOrThrow(c) ==
  Then(Read("U32", c), LAMBDA count :
    Then(ReadEach(FunctionBody_readOrThrow, count.c, count.v, 0, <<>>), LAMBDA bodies :
      Ok(CodeSection(bodies.v), bodies.c)))

\* ---- DataSection (mod.ts 1923-2092)

DataSection(segments) == [class |-> "DataSection", segments |-> segments]

DataSection_kind == \h0b

\* the body of the loop of sizeOrThrow; a flag outside 0..2 adds the flag only
DataSegment_sizeOrThrow(segment) ==
  1 + (CASE segment.flag = 0 ->
              Instructions_sizeOrThrow(segment.instructions)
              + U32_sizeOrThrow(Length(segment.data)) + Len(segment.data)
         [] segment.flag = 1 ->
              U32_sizeOrThrow(Length(segment.data)) + Len(segment.data)
         [] segment.flag = 2 ->
              U32_sizeOrThrow(segment.memidx)
              + Instructions_sizeOrThrow(segment.instructions)
              + U32_sizeOrThrow(Length(segment.data)) + Len(segment.data)
         [] OTHER -> 0)

DataSection_sizeOrThrow(this) ==
  U32_sizeOrThrow(Length(this.segments))
  + SizeEach(DataSegment_sizeOrThrow, this.segments)

\* the body of the loop of writeOrThrow; a flag outside 0..2 writes the flag only
DataSegment_writeOrThrow(segment) ==
  <<segment.flag>>
    \o (CASE segment.flag = 0 ->
               (Instructions_writeOrThrow(segment.instructions)
                  \o U32_writeOrThrow(Length(segment.data))) \o segment.data
          [] segment.flag = 1 ->
               U32_writeOrThrow(Length(segment.data)) \o segment.data
          [] segment.flag = 2 ->
               ((U32_writeOrThrow(segment.memidx)
                   \o Instructions_writeOrThrow(segment.instructions))
                  \o U32_writeOrThrow(Length(segment.data))) \o segment.data
          [] OTHER -> <<>>)

DataSection_writeOrThrow(this) ==
  U32_writeOrThrow(Length(this.segments))
    \o WriteEach(DataSegment_writeOrThrow, this.segments)

\* flag 0, after the flag: instructions, data
DataSegment0_readOrThrow(c, flag) ==
  Then(Expr_readOrThrow(c), LAMBDA instructions :
    Then(Bytes_readOrThrow(instructions.c), LAMBDA data :
      Ok([flag |-> flag, instructions |-> instructions.v,
          data |-> data.v], data.c)))

\* flag 1, after the flag: data
DataSegment1_readOrThrow(c, flag) ==
  Then(Bytes_readOrThrow(c), LAMBDA data :
    Ok([flag |-> flag, data |-> data.v], data.c))

\* flag 2, after the flag: memidx, instructions, data
DataSegment2_readOrThrow(c, flag) ==
  Then(Read("U32", c), LAMBDA memidx :
    Then(Expr_readOrThrow(memidx.c), LAMBDA instructions :
      Then(Bytes_readOrThrow(instructions.c), LAMBDA data :
        Ok([flag |-> flag, memidx |-> memidx.v,
            instructions |-> instructions.v,
            data |-> data.v], data.c))))

\* any other flag taken as a segment without data
DataSegment_readOrThrow_anyFlag(c) ==
  Then(readUint8OrThrow(c), LAMBDA flag :
    CASE flag.v = 0 -> DataSegment0_readOrThrow(flag.c, flag.v)
    [] flag.v = 1 -> DataSegment1_readOrThrow(flag.c, flag.v)
    [] flag.v = 2 -> DataSegment2_readOrThrow(flag.c, flag.v)
    [] OTHER -> Ok([flag |-> flag.v, data |-> <<>>], flag.c))

DataSegment_readOrThrow(c) ==
  Then(readUint8OrThrow(c), LAMBDA flag :
    CASE flag.v = 0 -> DataSegment0_readOrThrow(flag.c, flag.v)
    [] flag.v = 1 -> DataSegment1_readOrThrow(flag.c, flag.v)
    [] flag.v = 2 -> DataSegment2_readOrThrow(flag.c, flag.v)
    [] OTHER -> [ok |-> FALSE, v |-> "Unknown data segment flag",
      at |-> flag.v])

DataSection_readOrThrow(c) ==
  Then(Read("U32", c), LAMBDA count :
    Then(ReadEach(DataSegment_readOrThrow, count.c,
        count.v, 0, <<>>), LAMBDA segments :
      Ok(DataSection(segments.v), segments.c)))

\* ---- DataCountSection (mod.ts 2094-2122)

DataCountSection(count) == [class |-> "DataCountSection", count |-> count]

DataCountSection_kind == \h0c

DataCountSection_sizeOrThrow(this) == U32_sizeOrThrow(this.count)
DataCountSection_writeOrThrow(this) == U32_writeOrThrow(this.count)

DataCountSection_readOrThrow(c) ==
  Then(Read("U32", c), LAMBDA count :
    Ok(DataCountSection(count.v), count.c))

\* ---- TagSection (mod.ts 2124-2184)

TagSection(tags) == [class |-> "TagSection", tags |-> tags]

TagSection_kind == \h0d

TagSection_sizeOrThrow(this) ==
  U32_sizeOrThrow(Length(this.tags))
  + SizeEach(LAMBDA tag : 1 + U32_sizeOrThrow(tag[2]), this.tags)

TagSection_writeOrThrow(this) ==
  U32_writeOrThrow(Length(this.tags))
    \o WriteEach(LAMBDA tag : <<tag[1]>> \o U32_writeOrThrow(tag[2]), this.tags)

Tag_readOrThrow(c) ==
  Then(readUint8OrThrow(c), LAMBDA attribute :
    Then(Read("U32", attribute.c), LAMBDA typeidx :
      Ok(<<attribute.v, typeidx.v>>, typeidx.c)))

TagSection_readOrThrow(c) ==
  Then(Read("U32", c), LAMBDA count :
    Then(ReadEach(Tag_readOrThrow, count.c, count.v, 0, <<>>), LAMBDA tags :
      Ok(TagSection(tags.v), tags.c)))

(***************************************************************************)
(* Module, Head, Body (mod.ts 5-228)                                       *)
(***************************************************************************)

\* Readable.readFromBytesOrThrow(readable, bytes): a read from a new cursor
\* over the bytes that fails when bytes are left over
Readable_readFromBytesOrThrow_noUnderflow(X, bytes) == Read(X, Cursor(bytes))

Readable_readFromBytesOrThrow(X, bytes) ==
  Then(Read(X, Cursor(bytes)), LAMBDA r :
    IF remaining(r.c) # 0 THEN Throw("ReadUnderflowError") ELSE r)

\* Writable.writeToBytesOrThrow(writable): writes into sizeOrThrow() bytes
\* and fails when the bytes written are more or fewer
Writable_writeToBytesOrThrow(sz, written) ==
  IF Len(written) > sz THEN Throw("CursorWriteLengthOverflowError")
  ELSE IF Len(written) < sz THEN Throw("WriteUnderflowError")
  ELSE [ok |-> TRUE, v |-> written]

Section_kind(section) ==
  CASE section.class = "UnknownSection" -> section.kind
    [] section.class = "CustomSection" -> CustomSection_kind
    [] section.class = "TypeSection" -> TypeSection_kind
    [] section.class = "ImportSection" -> ImportSection_kind
    [] section.class = "FunctionSection" -> FunctionSection_kind
    [] section.class = "TableSection" -> TableSection_kind
    [] section.class = "MemorySection" -> MemorySection_kind
    [] section.class = "GlobalSection" -> GlobalSection_kind
    [] section.class = "ExportSection" -> ExportSection_kind
    [] section.class = "StartSection" -> StartSection_kind
    [] section.class = "ElementSection" -> ElementSection_kind
    [] section.class = "CodeSection" -> CodeSection_kind
    [] section.class = "DataSection" -> DataSection_kind
    [] section.class = "DataCountSection" -> DataCountSection_kind
    [] section.class = "TagSection" -> TagSection_kind

Section_sizeOrThrow(section) ==
  CASE section.class = "UnknownSection" -> UnknownSection_sizeOrThrow(section)
    [] section.class = "CustomSection" -> CustomSection_sizeOrThrow(section)
    [] section.class = "TypeSection" -> TypeSection_sizeOrThrow(section)
    [] section.class = "ImportSection" -> ImportSection_sizeOrThrow(section)
    [] section.class = "FunctionSection" -> FunctionSection_sizeOrThrow(section)
    [] section.class = "TableSection" -> TableSection_sizeOrThrow(section)
    [] section.class = "MemorySection" -> MemorySection_sizeOrThrow(section)
    [] section.class = "GlobalSection" -> GlobalSection_sizeOrThrow(section)
    [] section.class = "ExportSection" -> ExportSection_sizeOrThrow(section)
    [] section.class = "StartSection" -> StartSection_sizeOrThrow(section)
    [] section.class = "ElementSection" -> ElementSection_sizeOrThrow(section)
    [] section.class = "CodeSection" -> CodeSection_sizeOrThrow(section)
    [] section.class = "DataSection" -> DataSection_sizeOrThrow(section)
    [] section.class = "DataCountSection" -> DataCountSection_sizeOrThrow(section)
    [] section.class = "TagSection" -> TagSection_sizeOrThrow(section)

Section_writeOrThrow(section) ==
  CASE section.class = "UnknownSection" -> UnknownSection_writeOrThrow(section)
    [] section.class = "CustomSection" -> CustomSection_writeOrThrow(section)
    [] section.class = "TypeSection" -> TypeSection_writeOrThrow(section)
    [] section.class = "ImportSection" -> ImportSection_writeOrThrow(section)
    [] section.class = "FunctionSection" -> FunctionSection_writeOrThrow(section)
    [] section.class = "TableSection" -> TableSection_writeOrThrow(section)
    [] section.class = "MemorySection" -> MemorySection_writeOrThrow(section)
    [] section.class = "GlobalSection" -> GlobalSection_writeOrThrow(section)
    [] section.class = "ExportSection" -> ExportSection_writeOrThrow(section)
    [] section.class = "StartSection" -> StartSection_writeOrThrow(section)
    [] section.class = "ElementSection" -> ElementSection_writeOrThrow(section)
    [] section.class = "CodeSection" -> CodeSection_writeOrThrow(section)
    [] section.class = "DataSection" -> DataSection_writeOrThrow(section)
    [] section.class = "DataCountSection" -> DataCountSection_writeOrThrow(section)
    [] section.class = "TagSection" -> TagSection_writeOrThrow(section)

\* the dispatch of Body.readOrThrow on the section kind
Section_readOrThrow(kind, data) ==
  CASE kind = CustomSection_kind ->
         Readable_readFromBytesOrThrow("CustomSection", data)
    [] kind = TypeSection_kind ->
         Readable_readFromBytesOrThrow("TypeSection", data)
    [] kind = ImportSection_kind ->
         Readable_readFromBytesOrThrow("ImportSection", data)
    [] kind = FunctionSection_kind ->
         Readable_readFromBytesOrThrow("FunctionSection", data)
    [] kind = TableSection_kind ->
         Readable_readFromBytesOrThrow("TableSection", data)
    [] kind = MemorySection_kind ->
         Readable_readFromBytesOrThrow("MemorySection", data)
    [] kind = GlobalSection_kind ->
         Readable_readFromBytesOrThrow("GlobalSection", data)
    [] kind = ExportSection_kind ->
         Readable_readFromBytesOrThrow("ExportSection", data)
    [] kind = StartSection_kind ->
         Readable_readFromBytesOrThrow("StartSection", data)
    [] kind = ElementSection_kind ->
         Readable_readFromBytesOrThrow("ElementSection", data)
    [] kind = CodeSection_kind ->
         Readable_readFromBytesOrThrow("CodeSection", data)
    [] kind = DataSection_kind ->
         Readable_readFromBytesOrThrow("DataSection", data)
    [] kind = DataCountSection_kind ->
         Readable_readFromBytesOrThrow("DataCountSection", data)
    [] kind = TagSection_kind ->
         Readable_readFromBytesOrThrow("TagSection", data)
    [] OTHER -> Ok(UnknownSection(kind, data), Cursor(data))

Magic == Nat2Big(1836278016)

\* new Head(version)
Head_new(version) == [version |-> version]

Head_sizeOrThrow(this) == 4 + 4

Head_writeOrThrow(this) ==
  writeUint32OrThrow(Magic) \o writeUint32OrThrow(this.version)

Head_readOrThrow_anyVersion(c) ==
  Then(readUint32OrThrow(c), LAMBDA magic :
    IF magic.v # Magic THEN Throw("Invalid magic number")
    ELSE Then(readUint32OrThrow(magic.c), LAMBDA version :
      Ok(Head_new(version.v), version.c)))

Head_readOrThrow(c) ==
  Then(readUint32OrThrow(c), LAMBDA magic :
    IF magic.v # Magic THEN Throw("Invalid magic number")
    ELSE Then(readUint32OrThrow(magic.c), LAMBDA version :
      IF version.v # Nat2Big(1) THEN Throw("Unsupported version")
      ELSE Ok(Head_new(version.v), version.c)))

Body(sections) == [sections |-> sections]

Body_sizeOrThrow(this) ==
  SizeEach(LAMBDA section :
             1 + U32_sizeOrThrow(Nat2Big(Section_sizeOrThrow(section)))
               + Section_sizeOrThrow(section),
           this.sections)

Body_writeOrThrow(this) ==
  WriteEach(LAMBDA section :
              (<<Section_kind(section)>>
                 \o U32_writeOrThrow(Nat2Big(Section_sizeOrThrow(section))))
                \o Section_writeOrThrow(section),
            this.sections)

\* a loop that puts each section read in front of the earlier ones
RECURSIVE Body_readLoop_newestFirst(_, _)
Body_readLoop_newestFirst(c, sections) ==
  IF ~(remaining(c) > 0) THEN Ok(Body(sections), c)
  ELSE Then(readUint8OrThrow(c), LAMBDA kind :
    Then(Bytes_readOrThrow(kind.c), LAMBDA data :
      Then(Section_readOrThrow(kind.v, data.v), LAMBDA section :
        Body_readLoop_newestFirst(
          [data.c EXCEPT !.minimal = data.c.minimal
            /\ section.c.minimal],
          <<section.v>> \o sections))))

\* while (cursor.remaining > 0) { kind, size, data, section }
RECURSIVE Body_readLoop(_, _)
Body_readLoop(c, sections) ==
  IF ~(remaining(c) > 0) THEN Ok(Body(sections), c)
  ELSE Then(readUint8OrThrow(c), LAMBDA kind :
    Then(Bytes_readOrThrow(kind.c), LAMBDA data :
      Then(Section_readOrThrow(kind.v, data.v), LAMBDA section :
        Body_readLoop(
          [data.c EXCEPT !.minimal = data.c.minimal
            /\ section.c.minimal],
          Append(sections, section.v)))))

Body_readOrThrow(c) == Body_readLoop(c, <<>>)

Module(head, body) == [head |-> head, body |-> body]

Module_sizeOrThrow(this) == Head_sizeOrThrow(this.head) + Body_sizeOrThrow(this.body)

Module_writeOrThrow(this) == Head_writeOrThrow(this.head) \o Body_writeOrThrow(this.body)

Module_readOrThrow(c) ==
  Then(Head_readOrThrow(c), LAMBDA head :
    Then(Body_readOrThrow(head.c), LAMBDA body :
      Ok(Module(head.v, body.v), body.c)))

Read(X, c) ==
  CASE X = "U8" -> U8_readOrThrow(c)
    [] X = "U32" -> U32_readOrThrow(c)
    [] X = "I32" -> I32_readOrThrow(c)
    [] X = "I33" -> I33_readOrThrow(c)
    [] X = "U64" -> U64_readOrThrow(c)
    [] X = "I64" -> I64_readOrThrow(c)
    [] X = "F32" -> F32_readOrThrow(c)
    [] X = "F64" -> F64_readOrThrow(c)
    [] X = "Instruction" -> Instruction_readOrThrow(c)
    [] X = "CustomSection" -> CustomSection_readOrThrow(c)
    [] X = "TypeSection" -> TypeSection_readOrThrow(c)
    [] X = "ImportSection" -> ImportSection_readOrThrow(c)
    [] X = "FunctionSection" -> FunctionSection_readOrThrow(c)
    [] X = "TableSection" -> TableSection_readOrThrow(c)
    [] X = "MemorySection" -> MemorySection_readOrThrow(c)
    [] X = "GlobalSection" -> GlobalSection_readOrThrow(c)
    [] X = "ExportSection" -> ExportSection_readOrThrow(c)
    [] X = "StartSection" -> StartSection_readOrThrow(c)
    [] X = "ElementSection" -> ElementSection_readOrThrow(c)
    [] X = "CodeSection" -> CodeSection_readOrThrow(c)
    [] X = "DataSection" -> DataSection_readOrThrow(c)
    [] X = "DataCountSection" -> DataCountSection_readOrThrow(c)
    [] X = "TagSection" -> TagSection_readOrThrow(c)
    [] X = "Module" -> Module_readOrThrow(c)

\* Readable.readFromBytesOrThrow(Module, bytes), as in the README
decode(bytes) == Readable_readFromBytesOrThrow("Module", bytes)

\* Writable.writeToBytesOrThrow(module), as in the README
encode(m) == Writable_writeToBytesOrThrow(Module_sizeOrThrow(m), Module_writeOrThrow(m))

(***************************************************************************)
(* Inputs of the module round trip: byte sequences built from a header and *)
(* section frames.  The payloads cover every section kind, every segment   *)
(* layout, every shape of instruction, minimal and padded LEB128 fields,   *)
(* and malformed bytes.                                                    *)
(***************************************************************************)

WasmHeader == <<\h00, \h61, \h73, \h6D, \h01, \h00, \h00, \h00>>

\* a size in minimal LEB128 followed by the bytes
Sized(bytes) == U32_writeOrThrow(Length(bytes)) \o bytes

Frame(kind, payload) == <<kind>> \o Sized(payload)

\* constant expressions, each ending with 0x0b unless malformed
ExprSamples ==
  { <<\h0b>>,
    <<\h41, \h00, \h0b>>,
    <<\h41, \h80, \h00, \h0b>>,
    <<\h41, \h7F, \h0b>>,
    <<\h41, \h80, \h80, \h80, \h80, \h40, \h0b>>,
    <<\h41, \h81, \h80, \h80, \h80, \h80, \h80, \h80, \h80, \h80, \h40, \h0b>>,
    <<\h42, \h80, \h80, \h80, \h80, \h80, \h80, \h80, \h80, \h80, \h7F, \h0b>>,
    <<\h43, \h00, \h00, \h80, \h3F, \h0b>>,
    <<\h43, \h01, \h00, \h80, \h7F, \h0b>>,
    <<\h44, \h00, \h00, \h00, \h00, \h00, \h00, \h00, \h80, \h0b>>,
    <<\h44, \h01, \h00, \h00, \h00, \h00, \h00, \hF8, \hFF, \h0b>>,
    <<\h23, \h00, \h0b>>,
    <<\hd2, \h01, \h0b>>,
    <<\hd0, \h70, \h0b>>,
    <<\h41, \h01, \h41, \h02, \h6a, \h0b>>,
    <<\h41, \h00>>,
    <<\h06, \h0b>>,
    <<\h09, \h0b>>,
    <<\h41, \h00, \h16, \h0b>>,
    <<\hfc, \h12, \h0b>>,
    <<\h43, \h00, \h0b>> }

\* instruction sequences of function bodies
InstructionSamples ==
  { <<>>,
    <<\h0b>>,
    <<\h00, \h0b>>,
    <<\h02, \h40, \h01, \h0b, \h0b>>,
    <<\h03, \h7F, \h0c, \h00, \h0b, \h0b>>,
    <<\h04, \h05, \h05, \h0b, \h0b>>,
    <<\h0e, \h02, \h00, \h01, \h00, \h0b>>,
    <<\h0e, \h00, \h00, \h0b>>,
    <<\h0e, \h81, \h00, \h00, \h00, \h0b>>,
    <<\h10, \h80, \h01, \h0b>>,
    <<\h11, \h00, \h00, \h0b>>,
    <<\h1b, \h1c, \h01, \h7F, \h0b>>,
    <<\h1c, \h00, \h0b>>,
    <<\h1f, \h40, \h02, \h00, \h01, \h00, \h02, \h00, \h0b, \h0b>>,
    <<\h1f, \h40, \h01, \h01, \h00, \h00, \h0b>>,
    <<\h1f, \h7F, \h01, \h03, \h00, \h0b>>,
    <<\h1f, \h40, \h00, \h0b>>,
    <<\h1f, \h40, \h01, \h00, \h81, \h00, \h00, \h0b>>,
    <<\h1f, \h40, \h02, \hFF, \h05, \h01, \h80, \h01, \h02, \h0b>>,
    <<\h20, \h00, \h28, \h02, \h00, \h1a, \h0b>>,
    <<\h3f, \h00, \h40, \h00, \h0b>>,
    <<\hfc, \h00, \h0b>>,
    <<\hfc, \h08, \h01, \h00, \h0b>>,
    <<\hfc, \h0b, \h00, \h0b>>,
    <<\hfc, \h8a, \h00, \h00, \h00, \h0b>>,
    <<\hfc, \h12, \h0b>>,
    <<\hd1, \hd3, \hd5, \h00, \h0b>>,
    <<\hc5, \h0b>>,
    <<\h06>>,
    <<\h27, \h0b>>,
    <<\hd7, \h0b>>,
    <<\hff, \h0b>>,
    <<\hfd, \h00, \h0b>>,
    <<\h41, \h00, \h1d, \h0b>>,
    <<\hfc, \h92, \h00, \h0b>>,
    <<\hfc, \hFF, \hFF, \hFF, \hFF, \h0F, \h0b>>,
    <<\h41, \h7F, \h42, \hC0, \h00, \h0b>>,
    <<\h43, \h00, \h00, \h80, \h3F, \h0b>>,
    <<\h43, \h01, \h00, \h80, \h7F, \h0b>>,
    <<\h44, \h00, \h00, \h00, \h00, \h00, \h00, \hF0, \h3F, \h0b>>,
    <<\h1f, \h40, \h01, \h00>>,
    <<\h0e, \h03, \h00>> }

\* payloads by section kind
CustomPayloads ==
  { <<>>, <<\h00>>, <<\h01, \h41>>, <<\h01, \h41, \h42, \h43>>,
    <<\h81, \h00, \h41>>, <<\h02, \h41>> }

TypePayloads ==
  { <<\h00>>,
    <<\h01, \h60, \h00, \h00>>,
    <<\h01, \h60, \h02, \h7F, \h7E, \h01, \h7F>>,
    <<\h02, \h60, \h00, \h00, \h60, \h01, \h7F, \h00>>,
    <<\h01, \h4E, \h01, \h00, \h5F, \h7F, \h01>>,
    <<\h01, \h4D, \h00, \h60, \h00, \h00>>,
    <<\h01, \h4D, \h02, \h00, \h80, \h01, \h5E, \h00>>,
    <<\h01, \h4E, \h00, \h61>>,
    <<\h01, \h4E, \h01, \h00, \h40>>,
    <<\h01, \h50, \h60, \h00, \h00>>,
    <<\h01, \h50, \h00>>,
    <<\h02, \h60, \h00, \h00, \h50, \h61>>,
    <<\h01, \h60>> }
  \cup { <<\h01, \h50, \h5E, \h01, \h7F, m>> : m \in {0, 1, 2} }
  \cup { <<\h01, \h50, \h5E, \h02, \h7F, \h01, \h7E, m>> : m \in {0, 255} }
  \cup { <<\h01, \h50, \h5F, \h7F, m>> : m \in {0, 1, 2} }

\* limits: flag, min and, when bit 0 of the flag is set, max
LimitsSamples ==
  { <<\h00, \h01>>, <<\h01, \h01, \h02>>, <<\h02, \h01>>, <<\h03, \h01, \h02>>,
    <<\h00, \h81, \h00>>, <<\h01, \h00, \hFF, \hFF, \hFF, \hFF, \h0F>>,
    <<\h01, \h01>>, <<\h04, \h01>>, <<\hFE, \h01>>, <<\hFF, \h01, \h02>> }

ImportPayloads ==
  { <<\h00>>,
    <<\h01, \h01, \h61, \h01, \h62, \h00, \h03>>,
    <<\h01, \h00, \h00, \h00, \h80, \h01>>,
    <<\h01, \h01, \h61, \h01, \h62, \h03, \h7F, \h00>>,
    <<\h01, \h01, \h61, \h01, \h62, \h03, \h7F, \h01>>,
    <<\h02, \h01, \h61, \h01, \h62, \h00, \h00, \h01, \h61, \h01, \h63, \h03, \h7E, \h02>>,
    <<\h01, \h01, \h61, \h01, \h62, \h04, \h00>>,
    <<\h01, \h00, \h00, \hFF>>,
    <<\h02, \h01, \h61, \h01, \h62, \h00, \h00, \h01, \h61, \h01, \h63, \h05>>,
    <<\h01, \h02, \h61>> }
  \cup { <<\h01, \h01, \h61, \h01, \h62, \h01, \h70>> \o l : l \in LimitsSamples }
  \cup { <<\h01, \h01, \h61, \h01, \h62, \h02>> \o l : l \in LimitsSamples }

FunctionPayloads ==
  { <<\h00>>, <<\h02, \h00, \h01>>, <<\h01, \h80, \h01>>,
    <<\h01, \hFF, \hFF, \hFF, \hFF, \h0F>>, <<\h01, \hFF, \hFF, \hFF, \hFF, \h1F>>,
    <<\h02, \h00>>, <<\h01, \h00, \h00>>, <<\h80, \h00>> }

TablePayloads ==
  { <<\h00>>, <<\h02, \h70, \h00, \h00, \h6F, \h01, \h00, \h05>> }
  \cup { <<\h01, \h70>> \o l : l \in LimitsSamples }

MemoryPayloads ==
  { <<\h00>>, <<\h02, \h00, \h00, \h01, \h01, \h02>> }
  \cup { <<\h01>> \o l : l \in LimitsSamples }

GlobalPayloads ==
  { <<\h00>>, <<\h02, \h7F, \h00, \h41, \h00, \h0b, \h7E, \h01, \h42, \h7F, \h0b>> }
  \cup { <<\h01, \h7F, \h00>> \o x : x \in ExprSamples }

ExportPayloads ==
  { <<\h00>>, <<\h01, \h01, \h61, \h00, \h00>>,
    <<\h02, \h01, \h61, \h00, \h00, \h00, \h02, \h80, \h01>>,
    <<\h01, \h01, \h61, \h07, \h81, \h00>>, <<\h01, \h01, \h61, \h00>> }

StartPayloads ==
  { <<>>, <<\h00>>, <<\h03>>, <<\h05>>, <<\h80, \h01>>, <<\h85, \h00>>,
    <<\hFF, \hFF, \hFF, \hFF, \h0F>>, <<\hFF, \hFF, \hFF, \hFF, \h1F>>,
    <<\h80, \h80, \h80, \h80, \h80, \h80, \h80, \h80, \h80, \h80>>,
    <<\h05, \h00>> }

\* one segment of each layout (flags 0..7), flag 8, and two segments
ElementPayloads ==
  { <<\h00>>,
    <<\h01, \h00, \h41, \h00, \h0b, \h02, \h00, \h01>>,
    <<\h01, \h01, \h70, \h02, \hd2, \h00, \h0b, \hd0, \h70, \h0b>>,
    <<\h01, \h02, \h00, \h41, \h00, \h0b, \h70, \h01, \hd2, \h00, \h0b>>,
    <<\h01, \h03, \h70, \h00>>,
    <<\h01, \h04, \h41, \h80, \h00, \h0b, \h01, \h00>>,
    <<\h01, \h05, \h00, \h01, \h80, \h01>>,
    <<\h01, \h06, \h01, \h23, \h00, \h0b, \h00, \h02, \h00, \h01>>,
    <<\h01, \h07, \h00, \h00>>,
    <<\h01, \h08>>,
    <<\h01, \hFF, \h00>>,
    <<\h02, \h03, \h70, \h00, \h09>>,
    <<\h02, \h05, \h00, \h00, \h00, \h0b, \h00>>,
    <<\h01, \h00, \h41, \h00, \h01, \h00>>,
    <<\h01, \h00, \hfc, \h12, \h0b, \h00>> }

\* a function body: the size of the locals and instructions, then the bytes
FunctionBodyPayloads ==
  { Sized(<<\h00>> \o x) : x \in InstructionSamples }
  \cup { Sized(<<\h00>> \o (x \o <<\h0b>>)) : x \in ExprSamples }
  \cup { Sized(<<\h01, \h02, \h7F, \h20, \h00, \h0b>>),
         Sized(<<\h02, \h01, \h7F, \h80, \h01, \h7E, \h0b>>),
         Sized(<<\h01, \h02>>),
         <<\h82, \h00, \h00, \h0b>>,
         <<\h03, \h00, \h0b>>,
         <<>> }

CodePayloads ==
  { <<\h00>>,
    <<\h02>> \o (Sized(<<\h00, \h0b>>) \o Sized(<<\h01, \h01, \h7F, \h01, \h0b>>)),
    <<\h02>> \o (Sized(<<\h00, \h41>>) \o Sized(<<\h00, \h0b>>)),
    <<\h02>> \o (Sized(<<\h01, \h02>>) \o Sized(<<\h00, \h0b>>)) }
  \cup { <<\h01>> \o b : b \in FunctionBodyPayloads }

DataPayloads ==
  { <<\h00>>,
    <<\h01, \h00, \h41, \h00, \h0b, \h02, \h01, \h02>>,
    <<\h01, \h01, \h01, \h09>>,
    <<\h01, \h02, \h00, \h41, \h80, \h00, \h0b, \h00>>,
    <<\h01, \h02, \h80, \h01, \h41, \h00, \h0b, \h01, \hFF>>,
    <<\h02, \h01, \h00, \h00, \h0b, \h00>>,
    <<\h01, \h03>>,
    <<\h01, \h80>>,
    <<\h02, \h01, \h01, \h09, \h04>>,
    <<\h01, \h01, \h02, \h09>>,
    <<\h01, \h00, \h07, \h0b, \h00>> }

DataCountPayloads == { <<>>, <<\h00>>, <<\h03>>, <<\h83, \h00>>, <<\h03, \h00>> }

TagPayloads ==
  { <<\h00>>, <<\h01, \h00, \h00>>, <<\h02, \h00, \h00, \h01, \h80, \h01>>,
    <<\h01, \h00>> }

UnknownPayloads ==
  { <<>>, <<\h01, \h02, \h03>>, <<\h80>>, <<\hFF, \hFF, \h00, \h0b>> }

SectionPayloads(kind) ==
  CASE kind = CustomSection_kind -> CustomPayloads
    [] kind = TypeSection_kind -> TypePayloads
    [] kind = ImportSection_kind -> ImportPayloads
    [] kind = FunctionSection_kind -> FunctionPayloads
    [] kind = TableSection_kind -> TablePayloads
    [] kind = MemorySection_kind -> MemoryPayloads
    [] kind = GlobalSection_kind -> GlobalPayloads
    [] kind = ExportSection_kind -> ExportPayloads
    [] kind = StartSection_kind -> StartPayloads
    [] kind = ElementSection_kind -> ElementPayloads
    [] kind = CodeSection_kind -> CodePayloads
    [] kind = DataSection_kind -> DataPayloads
    [] kind = DataCountSection_kind -> DataCountPayloads
    [] kind = TagSection_kind -> TagPayloads
    [] OTHER -> UnknownPayloads

SectionKinds == (\h00..\h0e) \cup {\h7F, \hFF}

\* well-framed sections, and frames whose size field is padded, too large,
\* too small or cut short
Frames ==
  UNION { { Frame(kind, payload) : payload \in SectionPayloads(kind) } :
            kind \in SectionKinds }
    \cup { <<\h08, \h81, \h00, \h05>>, <<\h08, \h02, \h05>>, <<\h08, \h00, \h05>>,
           <<\h08>>, <<\h63, \h82, \h00, \h01, \h02>>, <<\h00, \h81, \h00, \h00>>,
           <<\h63, \h80, \h80, \h80, \h80, \h80, \h80, \h80, \h80, \h80, \h80>>,
           <<\h63, \h80, \h80, \h80, \h80, \h10>>, <<\h63, \h80>> }

\* the frames that may follow another frame
TailFrames ==
  { Frame(StartSection_kind, <<\h05>>),
    Frame(CustomSection_kind, <<\h01, \h41, \h42>>),
    <<\h08, \h81, \h00, \h05>>,
    Frame(CodeSection_kind, <<\h01>> \o Sized(<<\h00, \hc5, \h0b>>)),
    Frame(DataSection_kind, <<\h01, \h03>>),
    <<\h00>> }

MaxFrames == 2

\* the bodies of at most n frames
RECURSIVE Bodies(_)
Bodies(n) ==
  IF n = 0 THEN {<<>>}
  ELSE IF n = 1 THEN {<<>>} \cup Frames
  ELSE Bodies(n - 1)
         \cup { b \o t : b \in Bodies(n - 1) \ {<<>>}, t \in TailFrames }

Inputs ==
  { WasmHeader \o b : b \in Bodies(MaxFrames) }
    \cup { <<>>, <<\h00, \h61, \h73>>, <<\h00, \h61, \h73, \h6D>>,
           <<\h01, \h61, \h73, \h6D, \h01, \h00, \h00, \h00>>,
           <<\h00, \h61, \h73, \h6D, \h02, \h00, \h00, \h00>>,
           <<\h00, \h61, \h73, \h6D, \h01, \h00, \h00, \h01>>,
           <<\h00, \h61, \h73, \h6D, \h01, \h00, \h00>>,
           <<\h00, \h61, \h73, \h6E, \h01, \h00, \h00, \h00>>,
           <<\h00, \h61, \h73, \h6D, \h00, \h00, \h00, \h00>>,
           <<\h00, \h61, \h73, \h6D, \h01, \h01, \h00, \h00>>,
           <<\h00, \h62, \h73, \h6D, \h01, \h00, \h00, \h00, \h08, \h01, \h05>> }

\* The bytes a float write stores for NaN are chosen by the implementation
\* (ECMAScript NumericToRawBytes); one choice per run.
NanBitsChoices ==
  { [f32 |-> <<\h00, \h00, \hC0, \h7F>>,
     f64 |-> <<\h00, \h00, \h00, \h00, \h00, \h00, \hF8, \h7F>>],
    [f32 |-> <<\h01, \h00, \h80, \hFF>>,
     f64 |-> <<\h01, \h00, \h00, \h00, \h00, \h00, \hF0, \hFF>>] }

(***************************************************************************)
(* Edits of a decoded module: one assignment to a public field, as in the  *)
(* README (start.funcidx = 3), or one push onto an array.  Numbers stay    *)
(* non-negative numbers and a Nullable<number> stays a number or null.     *)
(***************************************************************************)

Two32 == Big(<<0, 0, 0, 0, 16>>, 0)

\* limits.flag = ..., limits.min = ..., limits.max = ...
EditLimits(limits) ==
  { [limits EXCEPT !.max = NotNull(Nat2Big(5))],
    [limits EXCEPT !.max = Null],
    [limits EXCEPT !.flag = 1],
    [limits EXCEPT !.min = Nat2Big(300)] }

EditImportBody(body) ==
  CASE body.class = "FunctionImport" -> { [body EXCEPT !.typeidx = Nat2Big(9)] }
    [] body.class \in {"TableImport", "MemoryImport"} -> EditLimits(body)
    [] body.class = "GlobalImport" -> { [body EXCEPT !.mutable = 1] }

EditTypeBody(body) ==
  CASE body.class = "FuncType" -> { [body EXCEPT !.params = Append(@, \h7F)] }
    [] body.class = "StructType" ->
         { [body EXCEPT !.fields = Append(@, <<\h7E, TRUE>>)] }
         \cup { [body EXCEPT !.fields[1][2] = ~@] : i \in {1} \cap DOMAIN body.fields }
    [] body.class = "ArrayType" -> { [body EXCEPT !.mutable = ~@] }

\* the edits of the first element of an array field, and the edited array
EditFirst(array, Edit(_)) ==
  IF array = <<>> THEN {} ELSE { [array EXCEPT ![1] = x] : x \in Edit(array[1]) }

EditSegment(segment) ==
  (IF "funcidxs" \in DOMAIN segment
     THEN { [segment EXCEPT !.funcidxs = Append(@, Nat2Big(4))] } ELSE {})
  \cup (IF "tableidx" \in DOMAIN segment
          THEN { [segment EXCEPT !.tableidx = Nat2Big(200)] } ELSE {})
  \cup (IF "data" \in DOMAIN segment
          THEN { [segment EXCEPT !.data = Append(@, \h07)] } ELSE {})
  \cup (IF "reftype" \in DOMAIN segment
          THEN { [segment EXCEPT !.reftype = \h6F] } ELSE {})

EditFunctionBody(body) ==
  { [body EXCEPT !.locals = Append(@, Local(Nat2Big(3), \h7F))],
    [body EXCEPT !.instructions = <<Instruction(\h01, <<>>)>> \o @] }

EditSection(section) ==
  CASE section.class = "UnknownSection" ->
         { [section EXCEPT !.kind = \h63], [section EXCEPT !.data = Append(@, \h00)] }
    [] section.class = "CustomSection" ->
         { [section EXCEPT !.name = <<>>], [section EXCEPT !.data = Append(@, \h01)] }
    [] section.class = "TypeSection" ->
         { [section EXCEPT !.descriptors = x] :
             x \in EditFirst(section.descriptors,
                             LAMBDA d : { [d EXCEPT !.body = y] :
                                            y \in EditTypeBody(d.body) }) }
    [] section.class = "ImportSection" ->
         { [section EXCEPT !.descriptors = x] :
             x \in EditFirst(section.descriptors,
                             LAMBDA d : { [d EXCEPT !.body = y] :
                                            y \in EditImportBody(d.body) }) }
    [] section.class = "FunctionSection" ->
         { [section EXCEPT !.typeidxs = Append(@, Nat2Big(3))] }
    [] section.class \in {"TableSection", "MemorySection"} ->
         { [section EXCEPT !.descriptors = x] :
             x \in EditFirst(section.descriptors, EditLimits) }
    [] section.class = "GlobalSection" ->
         { [section EXCEPT !.descriptors = x] :
             x \in EditFirst(section.descriptors,
                             LAMBDA d : { [d EXCEPT !.valtype = \h7E] }) }
    [] section.class = "ExportSection" ->
         { [section EXCEPT !.descriptors = x] :
             x \in EditFirst(section.descriptors,
                             LAMBDA d : { [d EXCEPT !.xidx = Nat2Big(9)] }) }
    [] section.class = "StartSection" ->
         { [section EXCEPT !.funcidx = Nat2Big(0)],
           [section EXCEPT !.funcidx = Nat2Big(3)],
           [section EXCEPT !.funcidx = Nat2Big(300)],
           [section EXCEPT !.funcidx = Two32] }
    [] section.class \in {"ElementSection", "DataSection"} ->
         { [section EXCEPT !.segments = x] :
             x \in EditFirst(section.segments, EditSegment) }
    [] section.class = "CodeSection" ->
         { [section EXCEPT !.bodies = x] :
             x \in EditFirst(section.bodies, EditFunctionBody) }
    [] section.class = "DataCountSection" ->
         { [section EXCEPT !.count = Nat2Big(300)] }
    [] section.class = "TagSection" ->
         { [section EXCEPT !.tags = Append(@, <<\h00, Nat2Big(1)>>)] }

\* the modules one edit away from m
Edits(m) ==
  { [m EXCEPT !.head.version = Nat2Big(2)],
    [m EXCEPT !.body.sections = Append(@, StartSection(Nat2Big(1)))],
    [m EXCEPT !.body.sections = <<>>] }
  \cup UNION { { [m EXCEPT !.body.sections[i] = x] :
                   x \in EditSection(m.body.sections[i]) } :
               i \in DOMAIN m.body.sections }

(***************************************************************************)
(* The module round trip of the README: decode a file, maybe edit the      *)
(* module, encode it, decode the bytes written.                            *)
(***************************************************************************)

LebIdle ==
  /\ lebPc = "idle"
  /\ lebCodec = "U32"
  /\ lebValue = BigZero
  /\ lebSize = 0
  /\ lebBytes = <<>>
  /\ lebTail = <<>>
  /\ lebRes = Throw("none")
  /\ lebLoop = BigZero

Init ==
  /\ LebIdle
  /\ pc = "init"
  /\ input \in Inputs
  /\ nanBits \in NanBitsChoices
  /\ module = Throw("none")
  /\ mutated = FALSE
  /\ size = 0
  /\ output = Throw("none")
  /\ module2 = Throw("none")

\* const module = Readable.readFromBytesOrThrow(Wasm.Module, bytes)
Decode ==
  /\ pc = "init"
  /\ module' = decode(input)
  /\ pc' = IF module'.ok THEN "decoded" ELSE "failed"
  /\ UNCHANGED <<input, mutated, size, output, module2, nanBits>>
  /\ UNCHANGED lebVars

\* start.funcidx = 3, or another edit of the decoded module
Edit ==
  /\ pc = "decoded"
  /\ ~mutated
  /\ \E m \in Edits(module.v) : module' = [module EXCEPT !.v = m]
  /\ mutated' = TRUE
  /\ UNCHANGED <<pc, input, size, output, module2, nanBits>>
  /\ UNCHANGED lebVars

\* Writable.writeToBytesOrThrow(module)
Encode ==
  /\ pc = "decoded"
  /\ size' = Module_sizeOrThrow(module.v)
  /\ output' = encode(module.v)
  /\ pc' = IF output'.ok THEN "written" ELSE "failed"
  /\ UNCHANGED <<input, module, mutated, module2, nanBits>>
  /\ UNCHANGED lebVars

\* Readable.readFromBytesOrThrow(Wasm.Module, written)
Redecode ==
  /\ pc = "written"
  /\ module2' = decode(output.v)
  /\ pc' = "done"
  /\ UNCHANGED <<input, module, mutated, size, output, nanBits>>
  /\ UNCHANGED lebVars

Next == Decode \/ Edit \/ Encode \/ Redecode

Spec == Init /\ [][Next]_vars

(***************************************************************************)
(* Properties of the module round trip.                                    *)
(***************************************************************************)

\* the elements of an array
Elems(array) == { array[i] : i \in DOMAIN array }

SectionsOf(m) == Elems(m.body.sections)

SectionsOfClass(m, class) == { s \in SectionsOf(m) : s.class = class }

FunctionBodiesOf(m) == UNION { Elems(s.bodies) : s \in SectionsOfClass(m, "CodeSection") }

LocalsOf(m) == UNION { Elems(b.locals) : b \in FunctionBodiesOf(m) }

\* the instruction lists of a segment: its offset expression, its elements
ExprsOfSegment(segment) ==
  (IF "instructions" \in DOMAIN segment THEN {segment.instructions} ELSE {})
  \cup (IF "elements" \in DOMAIN segment THEN Elems(segment.elements) ELSE {})

\* every instruction of the module: of function bodies, global initialisers,
\* element segments and data segments
InstructionsOf(m) ==
  UNION { Elems(b.instructions) : b \in FunctionBodiesOf(m) }
  \cup UNION { UNION { Elems(d.instructions) : d \in Elems(s.descriptors) } :
                 s \in SectionsOfClass(m, "GlobalSection") }
  \cup UNION { UNION { UNION { Elems(x) : x \in ExprsOfSegment(g) } :
                         g \in Elems(s.segments) } :
                 s \in SectionsOfClass(m, "ElementSection")
                       \cup SectionsOfClass(m, "DataSection") }

\* the bytes start with a U32 that counts the bytes after it
PrefixCounts(bytes) ==
  LET prefix == U32_readOrThrow(Cursor(bytes))
  IN prefix.ok /\ prefix.v = Nat2Big(remaining(prefix.c))

\* what Body writes for one section: the kind, then the size-prefixed payload
SectionFrame(section) == Body_writeOrThrow(Body(<<section>>))

\* C1: decode(encode(decode(B))) = decode(B) for every byte sequence B that
\* decodes: the module read from a file is written without error, and
\* reading what was written gives a structurally equal module.
C1_RoundTripValue ==
  ~mutated =>
    /\ (pc = "failed" => ~module.ok)
    /\ (pc = "done" => module2.ok /\ module2.v = module.v)

C1_Witness ==
  /\ pc = "done"
  /\ ~mutated
  /\ module.ok
  /\ module.v.body.sections # <<>>
  /\ output.v # input
  /\ module2.ok
  /\ module2.v = module.v

\* C2: an input whose LEB128 fields are all in minimal form is written back
\* byte for byte, every non-LEB byte included (the mutable byte of a struct
\* or array field, limits flags, section kinds).
C2_MinimalInputRewritesItself ==
  (pc \in {"written", "done"} /\ ~mutated /\ module.c.minimal) =>
    output.v = input

\* C3: decode(encode(M)) = M for every module M obtained by mutating a field
\* of a decoded module: the edited module is written and read back equal.
C3_EditedModuleRoundTrips ==
  (mutated /\ pc \in {"failed", "done"}) =>
    /\ pc = "done"
    /\ module2.ok
    /\ module2.v = module.v

\* sizeOrThrow() of every node of m is the number of bytes its writeOrThrow()
\* emits, and every size prefix counts the bytes it precedes
SizesAgree(m) ==
  /\ Module_sizeOrThrow(m) = Len(Module_writeOrThrow(m))
  /\ Head_sizeOrThrow(m.head) = Len(Head_writeOrThrow(m.head))
  /\ Body_sizeOrThrow(m.body) = Len(Body_writeOrThrow(m.body))
  /\ \A s \in SectionsOf(m) :
       /\ Section_sizeOrThrow(s) = Len(Section_writeOrThrow(s))
       /\ SectionFrame(s)[1] = Section_kind(s)
       /\ PrefixCounts(Tail(SectionFrame(s)))
       /\ Len(SectionFrame(s)) = Body_sizeOrThrow(Body(<<s>>))
  /\ \A b \in FunctionBodiesOf(m) :
       /\ FunctionBody_sizeOrThrow(b) = Len(FunctionBody_writeOrThrow(b))
       /\ PrefixCounts(FunctionBody_writeOrThrow(b))
  /\ \A l \in LocalsOf(m) : Local_sizeOrThrow(l) = Len(Local_writeOrThrow(l))
  /\ \A i \in InstructionsOf(m) :
       Instruction_sizeOrThrow(i) = Len(Instruction_writeOrThrow(i))

\* C4: for every node (Module, Head, Body, each Section variant,
\* FunctionBody, Local, Instruction) sizeOrThrow() is the number of bytes
\* writeOrThrow() emits; a section's size prefix is the number of payload
\* bytes and a FunctionBody's is the bytes of its locals and instructions.
\* So writing a module, edited or not, never fails on its size.
C4_SizeIsBytesWritten ==
  /\ (pc = "written" => SizesAgree(module.v))
  /\ (pc \in {"written", "done"} => output.ok /\ size = Len(output.v))
  /\ (pc = "failed" => ~module.ok)

C4_Witness ==
  /\ pc = "written"
  /\ mutated
  /\ size = Len(output.v)
  /\ \E b \in FunctionBodiesOf(module.v) :
       /\ Len(b.locals) > 1
       /\ Len(b.instructions) > 1
       /\ FunctionBody_sizeOrThrow(b) = Len(FunctionBody_writeOrThrow(b))
       /\ PrefixCounts(FunctionBody_writeOrThrow(b))

\* the input opens with the magic 00 61 73 6D and the version 01 00 00 00
HeaderGood(bytes) ==
  /\ Len(bytes) >= 8
  /\ SubSeq(bytes, 1, 4) = <<0, 97, 115, 109>>
  /\ SubSeq(bytes, 5, 8) = <<1, 0, 0, 0>>

\* C12: Head.readOrThrow fails, and Module.readOrThrow returns no module,
\* whenever the first little-endian u32 of the input is not 0x6D736100 or
\* the second is not 1; a decoded Head has version 1; Head.writeOrThrow
\* emits the magic 00 61 73 6D and then the version field.
C12_HeadChecked ==
  /\ pc # "init" =>
       /\ Head_readOrThrow(Cursor(input)).ok <=> HeaderGood(input)
       /\ module.ok => HeaderGood(input)
       /\ (module.ok /\ ~mutated) => module.v.head.version = Nat2Big(1)
  /\ pc \in {"written", "done"} =>
       /\ SubSeq(output.v, 1, 4) = <<0, 97, 115, 109>>
       /\ SubSeq(output.v, 5, 8) =
            <<DigitsVal(module.v.head.version.digits), 0, 0, 0>>

C12_Witness ==
  /\ pc = "failed"
  /\ input = <<0, 97, 115, 109, 2, 0, 0, 0>>
  /\ ~module.ok
  /\ module.v = "Unsupported version"

(***************************************************************************)
(* The LEB128 harness: construct, size, write, read back; or read raw      *)
(* bytes.                                                                  *)
(***************************************************************************)

Codecs == {"U32", "I32", "I33", "U64", "I64"}

LEB128_sizeOrThrow(codec, value) ==
  CASE codec = "U32" -> U32_sizeOrThrow(value)
    [] codec = "I32" -> I32_sizeOrThrow(value)
    [] codec = "I33" -> I33_sizeOrThrow(value)
    [] codec = "U64" -> U64_sizeOrThrow(value)
    [] codec = "I64" -> I64_sizeOrThrow(value)

LEB128_writeOrThrow(codec, value) ==
  CASE codec = "U32" -> U32_writeOrThrow(value)
    [] codec = "I32" -> I32_writeOrThrow(value)
    [] codec = "I33" -> I33_writeOrThrow(value)
    [] codec = "U64" -> U64_writeOrThrow(value)
    [] codec = "I64" -> I64_writeOrThrow(value)

LEB128_readOrThrow(codec, c) ==
  CASE codec = "U32" -> U32_readOrThrow(c)
    [] codec = "I32" -> I32_readOrThrow(c)
    [] codec = "I33" -> I33_readOrThrow(c)
    [] codec = "U64" -> U64_readOrThrow(c)
    [] codec = "I64" -> I64_readOrThrow(c)

\* the declared range of each codec: [0, 2^32-1], [-2^31, 2^31-1],
\* [-2^32, 2^32-1], [0, 2^64-1], [-2^63, 2^63-1]
InRange(codec, value) ==
  CASE codec = "U32" -> value.ext = 0 /\ ~ExceedsBits(value, 32)
    [] codec = "I32" -> ~ExceedsBits(value, 31) /\ ~BelowBits(value, 31)
    [] codec = "I33" -> ~ExceedsBits(value, 32) /\ ~BelowBits(value, 32)
    [] codec = "U64" -> value.ext = 0 /\ ~ExceedsBits(value, 64)
    [] codec = "I64" -> ~ExceedsBits(value, 63) /\ ~BelowBits(value, 63)

\* the number of base-128 digits of the values and encodings tried
MaxDigits == 11

\* digits that put a value on either side of each boundary of a codec
TopDigits == {0, 1, 7, 8, 15, 16, 63, 64, 112, 120, 127}
FillDigits == {0, 1, 127}

\* values: n equal low digits, one top digit, either sign
LebValues ==
  { Big([i \in 1..n |-> IF i = n THEN t ELSE f], e) :
      n \in 1..MaxDigits, t \in TopDigits, f \in FillDigits, e \in {0, 127} }

\* raw encodings: n bytes with the continuation bit set, then a last byte
\* without it, or nothing (the input ends), then the tail
RawEncodings ==
  { [i \in 1..n |-> 128 + (IF i = 1 THEN g ELSE f)] \o last :
      n \in 0..MaxDigits, g \in FillDigits, f \in FillDigits,
      last \in {<<>>} \cup { <<t>> : t \in TopDigits } }

LebTails == {<<>>, <<0>>, <<255>>}

ModIdle ==
  /\ pc = "idle"
  /\ input = <<>>
  /\ module = Throw("none")
  /\ mutated = FALSE
  /\ size = 0
  /\ output = <<>>
  /\ module2 = Throw("none")
  /\ nanBits = <<>>

LebInit ==
  /\ ModIdle
  /\ lebCodec \in Codecs
  /\ lebTail \in LebTails
  /\ lebSize = 0
  /\ lebRes = Throw("none")
  /\ lebLoop = BigZero
  /\ \/ /\ lebPc = "new"
        /\ lebValue \in { v \in LebValues : InRange(lebCodec, v) }
        /\ lebBytes = <<>>
     \/ /\ lebPc = "raw"
        /\ lebValue = BigZero
        /\ lebBytes \in RawEncodings
        /\ lebTail = <<>>

\* new LEB128.X(value).sizeOrThrow()
LebSize ==
  /\ lebPc = "new"
  /\ lebSize' = LEB128_sizeOrThrow(lebCodec, lebValue)
  /\ lebPc' = "sized"
  /\ UNCHANGED <<lebCodec, lebValue, lebBytes, lebTail, lebRes, lebLoop>>
  /\ UNCHANGED modVars

\* new LEB128.X(value).writeOrThrow(cursor)
LebWrite ==
  /\ lebPc = "sized"
  /\ lebBytes' = LEB128_writeOrThrow(lebCodec, lebValue)
  /\ lebPc' = "written"
  /\ UNCHANGED <<lebCodec, lebValue, lebSize, lebTail, lebRes, lebLoop>>
  /\ UNCHANGED modVars

\* LEB128.X.readOrThrow on the bytes written, followed by the tail
LebRead ==
  /\ lebPc = "written"
  /\ lebRes' = LEB128_readOrThrow(lebCodec, Cursor(lebBytes \o lebTail))
  /\ lebPc' = "read"
  /\ UNCHANGED <<lebCodec, lebValue, lebSize, lebBytes, lebTail, lebLoop>>
  /\ UNCHANGED modVars

\* LEB128.X.readOrThrow on raw bytes
LebReadRaw ==
  /\ lebPc = "raw"
  /\ lebRes' = LEB128_readOrThrow(lebCodec, Cursor(lebBytes))
  /\ lebPc' = "rawread"
  /\ UNCHANGED <<lebCodec, lebValue, lebSize, lebBytes, lebTail, lebLoop>>
  /\ UNCHANGED modVars

\* the value read from raw bytes is written again
LebRewrite ==
  /\ lebPc = "rawread"
  /\ lebRes.ok
  /\ lebValue' = lebRes.v
  /\ lebSize' = LEB128_sizeOrThrow(lebCodec, lebRes.v)
  /\ lebBytes' = LEB128_writeOrThrow(lebCodec, lebRes.v)
  /\ lebPc' = "written"
  /\ UNCHANGED <<lebCodec, lebTail, lebRes, lebLoop>>
  /\ UNCHANGED modVars

LebNext == LebSize \/ LebWrite \/ LebRead \/ LebReadRaw \/ LebRewrite

SpecLeb == LebInit /\ [][LebNext]_vars

(***************************************************************************)
(* The LEB128 loops, one iteration per step (SpecLoop)                     *)
(***************************************************************************)

\* `size` is a Number: size += 1 no longer changes it once it is 2^53.  The
\* model's counter stops changing at LoopCap, which no loop that ends on
\* the values tried comes near.
LoopCap == MaxDigits + 2

\* the integers a host can assign to the field of a LEB128.U32 (a Number)
\* or of a LEB128.U64 (a BigInt), either sign
HostValues(codec) ==
  IF codec = "U32" THEN { v \in LebValues : Number(v) = v } ELSE LebValues

LoopInit ==
  /\ ModIdle
  /\ lebTail = <<>>
  /\ lebRes = Throw("none")
  /\ lebSize = 0
  /\ \/ /\ lebPc = "reading"
        /\ lebCodec \in Codecs
        /\ lebBytes \in RawEncodings
        /\ lebValue = BigZero
        /\ lebLoop = BigZero
     \/ /\ lebPc = "sizing"
        /\ lebCodec \in {"U32", "U64"}
        /\ lebValue \in HostValues(lebCodec)
        /\ lebLoop = lebValue
        /\ lebBytes = <<>>

\* what follows the loop of X.readOrThrow: the sign extension of the signed
\* codecs and the range check; the value is the BigInt `value`, which the 32
\* and 33 bit codecs return as Number(value)
LoopResult(codec, value, byte, c) ==
  LET signed == IF codec \in {"I32", "I33", "I64"}
                THEN SignExtend([value |-> value.digits, byte |-> byte])
                ELSE value
      bits == CASE codec = "U32" -> 32
                [] codec = "I32" -> 31
                [] codec = "I33" -> 32
                [] codec = "U64" -> 64
                [] codec = "I64" -> 63
  IN IF ExceedsBits(signed, bits)
     THEN Throw("Value exceeds " \o codec \o " range")
     ELSE Ok(signed, c)

\* an iteration that keeps going after the tenth byte
ReadStep_noShiftLimit ==
  /\ lebPc = "reading"
  /\ LET b == readUint8OrThrow([Cursor(lebBytes) EXCEPT !.offset = lebSize])
     IN IF ~b.ok
        THEN /\ lebPc' = "thrown"
             /\ lebRes' = b
             /\ UNCHANGED <<lebLoop, lebSize>>
        ELSE /\ lebLoop' = Big(OrShl(lebLoop.digits, b.v % 128, 7 * lebSize), 0)
             /\ lebSize' = lebSize + 1
             /\ IF b.v >= 128
                THEN /\ lebPc' = "reading"
                     /\ UNCHANGED lebRes
                ELSE /\ lebRes' = LoopResult(lebCodec, lebLoop', b.v, b.c)
                     /\ lebPc' = IF lebRes'.ok THEN "returned" ELSE "thrown"
  /\ UNCHANGED <<lebCodec, lebValue, lebBytes, lebTail>>
  /\ UNCHANGED modVars

\* one iteration of the do-while loop of X.readOrThrow (shift = 7 * offset),
\* and after the last one the sign extension and the range check
ReadStep ==
  /\ lebPc = "reading"
  /\ LET b == readUint8OrThrow([Cursor(lebBytes) EXCEPT !.offset = lebSize])
         shift == (7 * lebSize) + 7
     IN IF ~b.ok
        THEN /\ lebPc' = "thrown"
             /\ lebRes' = b
             /\ UNCHANGED <<lebLoop, lebSize>>
        ELSE /\ lebLoop' = Big(OrShl(lebLoop.digits, b.v % 128, 7 * lebSize), 0)
             /\ lebSize' = lebSize + 1
             /\ IF b.v >= 128 /\ shift < 70
                THEN /\ lebPc' = "reading"
                     /\ UNCHANGED lebRes
                ELSE /\ lebRes' = LoopResult(lebCodec, lebLoop', b.v, b.c)
                     /\ lebPc' = IF lebRes'.ok THEN "returned" ELSE "thrown"
  /\ UNCHANGED <<lebCodec, lebValue, lebBytes, lebTail>>
  /\ UNCHANGED modVars

\* one iteration of the do-while loop of U32 / U64 sizeOrThrow; when it
\* ends, Writable.writeToBytesOrThrow allocates `size` bytes and writes
SizeStep ==
  /\ lebPc = "sizing"
  /\ LET value == Shr7(lebLoop)
     IN /\ lebSize' = IF lebSize < LoopCap THEN lebSize + 1 ELSE lebSize
        /\ IF value # BigZero
           THEN /\ lebLoop' = value
                /\ lebPc' = "sizing"
           ELSE /\ lebLoop' = lebValue
                /\ lebPc' = "writing"
  /\ UNCHANGED <<lebCodec, lebValue, lebBytes, lebTail, lebRes>>
  /\ UNCHANGED modVars

\* one iteration of the do-while loop of U32 / U64 writeOrThrow on a cursor
\* of lebSize bytes
WriteStep ==
  /\ lebPc = "writing"
  /\ LET byte == Low7(lebLoop)
         value == Shr7(lebLoop)
     IN IF Len(lebBytes) >= lebSize
        THEN /\ lebPc' = "overflowed"
             /\ lebRes' = Throw("CursorWriteLengthOverflowError")
             /\ UNCHANGED <<lebLoop, lebBytes>>
        ELSE /\ lebLoop' = value
             /\ lebBytes' = Append(lebBytes, IF value # BigZero THEN byte + 128 ELSE byte)
             /\ lebPc' = IF value # BigZero THEN "writing" ELSE "written"
             /\ UNCHANGED lebRes
  /\ UNCHANGED <<lebCodec, lebValue, lebSize, lebTail>>
  /\ UNCHANGED modVars

LoopNext == ReadStep \/ SizeStep \/ WriteStep

\* the loops run in one synchronous call: an iteration that can run, runs
SpecLoop == LoopInit /\ [][LoopNext]_vars /\ WF_vars(LoopNext)

(***************************************************************************)
(* Properties of the LEB128 codecs (checked under SpecLeb)                 *)
(***************************************************************************)

Two31 == Big(<<0, 0, 0, 0, 8>>, 0)
Two32m1 == Big(<<127, 127, 127, 127, 15>>, 0)
MinusTwo32 == Big(<<0, 0, 0, 0, 112>>, 127)
MinusTwo63 == Big(<<0, 0, 0, 0, 0, 0, 0, 0, 0>>, 127)

\* C5: for each of the five codecs and every value in its declared range,
\* sizeOrThrow() is the number of bytes writeOrThrow() emits.
C5_SizeIsBytesWritten ==
  lebPc \in {"written", "read"} => lebSize = Len(lebBytes)

C5_Witness ==
  /\ lebPc = "written"
  /\ lebCodec = "I33"
  /\ lebValue = MinusTwo32
  /\ lebSize = 5
  /\ Len(lebBytes) = 5

\* C6: for every u in [0, 2^32-1], U32.readOrThrow on the bytes written for
\* u returns u and consumes exactly the bytes written.
C6_U32RoundTrip ==
  (lebPc = "read" /\ lebCodec = "U32") =>
    /\ lebRes.ok
    /\ lebRes.v = lebValue
    /\ lebRes.c.offset = Len(lebBytes)

C6_Witness ==
  /\ lebPc = "read"
  /\ lebCodec = "U32"
  /\ lebValue = Two32m1
  /\ lebBytes = <<255, 255, 255, 255, 15>>
  /\ lebTail = <<255>>
  /\ lebRes.ok
  /\ lebRes.v = Two32m1
  /\ lebRes.c.offset = 5

\* C7: I32, I33, U64 and I64 round-trip over their whole declared range,
\* the endpoints included: decode(encode(x)) = x.
C7_SignedAnd64RoundTrip ==
  (lebPc = "read" /\ lebCodec \in {"I32", "I33", "U64", "I64"}
     /\ InRange(lebCodec, lebValue)) =>
    /\ lebRes.ok
    /\ lebRes.v = lebValue

C7_Witness ==
  /\ lebPc = "read"
  /\ lebCodec = "I64"
  /\ lebValue = MinusTwo63
  /\ Len(lebBytes) = 10
  /\ lebRes.ok
  /\ lebRes.v = MinusTwo63

\* the first n bytes all carry the continuation bit
Unterminated(bytes, n) ==
  Len(bytes) >= n /\ \A i \in 1..n : bytes[i] >= 128

\* C8: a read fails when the first 10 bytes of the encoding all have the
\* continuation bit set; it never returns a value for such an encoding.
C8_UnterminatedReadFails ==
  (lebPc = "rawread" /\ Unterminated(lebBytes, 10)) => ~lebRes.ok

\* the integer spelled by the payload bits of an encoding: 7 bits per byte
\* up to the first byte without the continuation bit, 10 bytes at most
RECURSIVE Payload(_, _)
Payload(bytes, n) ==
  IF bytes = <<>> \/ n = 0 THEN <<>>
  ELSE IF Head(bytes) < 128 THEN <<Head(bytes)>>
  ELSE <<Head(bytes) - 128>> \o Payload(Tail(bytes), n - 1)

\* C9: the unsigned reads never return a value outside the declared width:
\* U32.readOrThrow fails when the decoded value exceeds 2^32-1 and
\* U64.readOrThrow when it exceeds 2^64-1.
C9_UnsignedReadInRange ==
  (lebPc \in {"rawread", "read"} /\ lebCodec \in {"U32", "U64"}) =>
    /\ lebRes.ok => InRange(lebCodec, lebRes.v)
    /\ (lebPc = "rawread"
          /\ ExceedsBits(Big(Payload(lebBytes, 10), 0),
                         IF lebCodec = "U32" THEN 32 ELSE 64))
         => ~lebRes.ok

C9_Witness ==
  /\ lebPc = "rawread"
  /\ lebCodec = "U32"
  /\ lebBytes = <<128, 128, 128, 128, 16>>
  /\ ~lebRes.ok

\* C10: the signed reads fail for every encoding whose sign-extended value
\* is outside the declared signed range, on both sides.
C10_SignedReadInRange ==
  (lebPc = "rawread" /\ lebCodec \in {"I32", "I33", "I64"} /\ lebRes.ok) =>
    InRange(lebCodec, lebRes.v)

\* the bytes carry the continuation bit on every byte but the last
Terminated(bytes) ==
  /\ Len(bytes) >= 1
  /\ \A i \in 1..(Len(bytes) - 1) : bytes[i] >= 128
  /\ bytes[Len(bytes)] < 128

\* max(1, ceil(bitlength / 7)) for a non-negative value
UnsignedLength(value) ==
  IF value = BigZero THEN 1 ELSE (Len(Magnitude(value)) + 6) \div 7

\* the value lies in [-2^(7n-1), 2^(7n-1) - 1], the range of n signed bytes
FitsSigned(value, n) ==
  ~ExceedsBits(value, 7 * n - 1) /\ ~BelowBits(value, 7 * n - 1)

\* the least number of bytes whose sign-extended payload is the value
SignedLength(value) ==
  CHOOSE n \in 1..(MaxDigits + 2) :
    FitsSigned(value, n) /\ (n = 1 \/ ~FitsSigned(value, n - 1))

\* the encodings the specification spells out
LebExamples ==
  { <<"U32", BigZero, <<0>> >>,
    <<"U32", Nat2Big(127), <<127>> >>,
    <<"U32", Nat2Big(128), <<128, 1>> >>,
    <<"U32", Nat2Big(16384), <<128, 128, 1>> >>,
    <<"U32", Two32m1, <<255, 255, 255, 255, 15>> >>,
    <<"I32", BigMinusOne, <<127>> >>,
    <<"I32", Big(<<0>>, 127), <<128, 127>> >>,
    <<"I32", Nat2Big(63), <<63>> >>,
    <<"I32", Nat2Big(64), <<192, 0>> >> }

\* C11: every LEB128 write of an in-range value emits at least one byte,
\* sets the continuation bit on every byte except the last, and emits the
\* minimal form: max(1, ceil(bitlength/7)) bytes for unsigned values, the
\* fewest bytes that sign-extend to the value for signed ones; the examples
\* of the specification are the bytes written.
C11_WriteIsMinimal ==
  (lebPc = "written" /\ InRange(lebCodec, lebValue)) =>
    /\ Terminated(lebBytes)
    /\ lebCodec \in {"U32", "U64"} => Len(lebBytes) = UnsignedLength(lebValue)
    /\ lebCodec \in {"I32", "I33", "I64"} => Len(lebBytes) = SignedLength(lebValue)
    /\ \A x \in LebExamples :
         (lebCodec = x[1] /\ lebValue = x[2]) => lebBytes = x[3]

C11_Witness ==
  /\ lebPc = "written"
  /\ lebCodec = "I32"
  /\ lebValue = Nat2Big(64)
  /\ lebBytes = <<192, 0>>

\* the position of the first byte without the continuation bit among the
\* first 10 bytes, 0 when there is none
LebEnd(bytes) ==
  LET ends == { i \in 1..Len(bytes) : i <= 10 /\ bytes[i] < 128 }
  IN IF ends = {} THEN 0 ELSE CHOOSE i \in ends : \A j \in ends : i <= j

\* zero or more complete frames and nothing else: a kind byte, a terminated
\* LEB128 size of at most 2^32-1, and that many payload bytes
RECURSIVE IsFrames(_)
IsFrames(bytes) ==
  IF bytes = <<>> THEN TRUE
  ELSE LET rest == Tail(bytes)
           n == LebEnd(rest)
           value == Big(Payload(rest, 10), 0)
       IN /\ n > 0
          /\ ~ExceedsBits(value, 20)
          /\ DigitsVal(value.digits) <= Len(rest) - n
          /\ IsFrames(SubSeq(rest, n + DigitsVal(value.digits) + 1, Len(rest)))

\* C13: Module.readOrThrow succeeds only if the input is the 8-byte header
\* followed by zero or more complete section frames (kind byte, U32 LEB128
\* size, size payload bytes); trailing bytes that are no complete frame make
\* the decode fail; the header alone decodes to a module without sections
\* that is written back as the same 8 bytes.
C13_OnlyCompleteFrames ==
  /\ (pc # "init" /\ module.ok) =>
       /\ HeaderGood(input)
       /\ IsFrames(SubSeq(input, 9, Len(input)))
  /\ (pc # "init" /\ input = WasmHeader) => module.ok
  /\ (pc = "decoded" /\ input = WasmHeader /\ ~mutated) =>
       module.v.body.sections = <<>>
  /\ (pc \in {"written", "done"} /\ input = WasmHeader /\ ~mutated) =>
       output.v = WasmHeader

\* the frames of bytes that satisfy IsFrames: the kind, the payload and the
\* bytes that follow the frame
RECURSIVE FramesOf(_)
FramesOf(bytes) ==
  IF bytes = <<>> THEN <<>>
  ELSE LET rest == Tail(bytes)
           n == LebEnd(rest)
           sz == DigitsVal(Big(Payload(rest, 10), 0).digits)
           after == SubSeq(rest, n + sz + 1, Len(rest))
       IN <<[kind |-> Head(bytes), payload |-> SubSeq(rest, n + 1, n + sz),
             rest |-> after]>> \o FramesOf(after)

\* the classes of the section kinds 0x01..0x0D
KnownSections ==
  <<"TypeSection", "ImportSection", "FunctionSection", "TableSection",
    "MemorySection", "GlobalSection", "ExportSection", "StartSection",
    "ElementSection", "CodeSection", "DataSection", "DataCountSection",
    "TagSection">>

\* what the grammar of the section reads when the bytes after the frame are
\* within reach: as many bytes as the payload has, and the section decoded
ConsumesItsFrame(frame, section) ==
  LET whole == Read(KnownSections[frame.kind],
                    Cursor(frame.payload \o frame.rest))
  IN /\ whole.ok
     /\ whole.c.offset = Len(frame.payload)
     /\ whole.v = section

\* C14: a section of a known kind other than Custom (0x01..0x0D) consumes
\* exactly the bytes of its frame: the decode fails when the payload needs
\* bytes past the frame, whatever follows the frame, and when the payload
\* has bytes left after the section is complete.
C14_SectionConsumesItsFrame ==
  (pc = "decoded" /\ ~mutated /\ IsFrames(SubSeq(input, 9, Len(input)))) =>
    LET frames == FramesOf(SubSeq(input, 9, Len(input)))
    IN /\ Len(module.v.body.sections) = Len(frames)
       /\ \A i \in DOMAIN frames :
            frames[i].kind \in DOMAIN KnownSections =>
              ConsumesItsFrame(frames[i], module.v.body.sections[i])

\* a function section that announces two indices and holds one, before a
\* start section; a start section with a byte left over
C14_Witness ==
  /\ pc = "failed"
  /\ ~module.ok
  /\ \/ input = WasmHeader \o <<3, 2, 2, 0, 8, 1, 5>>
     \/ input = WasmHeader \o <<8, 2, 5, 0>>

\* C15: a frame whose kind byte is none of 0x00..0x0D decodes, whatever its
\* payload, to an UnknownSection holding the kind and the payload bytes
\* unchanged, and is written as the same kind byte, the payload length and
\* the same payload bytes.
C15_UnknownSectionVerbatim ==
  (pc # "init" /\ ~mutated /\ HeaderGood(input)
     /\ IsFrames(SubSeq(input, 9, Len(input)))) =>
    LET frames == FramesOf(SubSeq(input, 9, Len(input)))
        unknown == { i \in DOMAIN frames : frames[i].kind > TagSection_kind }
    IN /\ unknown = DOMAIN frames => module.ok
       /\ module.ok =>
            \A i \in unknown :
              LET section == module.v.body.sections[i]
              IN /\ section = UnknownSection(frames[i].kind, frames[i].payload)
                 /\ IsFrames(SectionFrame(section))
                 /\ FramesOf(SectionFrame(section)) =
                      <<[kind |-> frames[i].kind,
                         payload |-> frames[i].payload, rest |-> <<>>]>>
                 /\ Len(SectionFrame(section)) = 2 + Len(frames[i].payload)

C15_Witness ==
  /\ pc = "written"
  /\ ~mutated
  /\ input = WasmHeader \o <<255, 4, 255, 255, 0, 11>>
  /\ module.v.body.sections = <<UnknownSection(255, <<255, 255, 0, 11>>)>>
  /\ output.v = input

\* a custom section payload read by hand: the length field ends at byte n,
\* spells the name length, and the name fits in what remains
CustomLength(payload) == Big(Payload(payload, 10), 0)

CustomFits(payload) ==
  /\ LebEnd(payload) > 0
  /\ ~ExceedsBits(CustomLength(payload), 20)
  /\ DigitsVal(CustomLength(payload).digits) <= Len(payload) - LebEnd(payload)

CustomName(payload) ==
  SubSeq(payload, LebEnd(payload) + 1,
         LebEnd(payload) + DigitsVal(CustomLength(payload).digits))

CustomData(payload) ==
  SubSeq(payload, LebEnd(payload) + DigitsVal(CustomLength(payload).digits) + 1,
         Len(payload))

\* C16: a custom section payload decodes as a U32 LEB128 name length n, n
\* name bytes, and data equal to all remaining bytes, possibly none; the
\* decode fails when n exceeds the bytes remaining in the payload; the
\* section is written as name length, name and data, so that a minimally
\* encoded custom section is written back byte for byte.
C16_CustomSectionLayout ==
  (pc # "init" /\ ~mutated /\ HeaderGood(input)
     /\ IsFrames(SubSeq(input, 9, Len(input)))) =>
    LET frames == FramesOf(SubSeq(input, 9, Len(input)))
        custom == { i \in DOMAIN frames :
                      /\ frames[i].kind = CustomSection_kind
                      /\ LebEnd(frames[i].payload) > 0 }
    IN /\ (custom = DOMAIN frames
             /\ \A i \in custom : CustomFits(frames[i].payload)) => module.ok
       /\ \A i \in custom :
            LET payload == frames[i].payload
            IN /\ ~CustomFits(payload) => ~module.ok
               /\ module.ok =>
                    LET section == module.v.body.sections[i]
                        written == Section_writeOrThrow(section)
                    IN /\ section = CustomSection(CustomName(payload),
                                                  CustomData(payload))
                       /\ CustomFits(written)
                       /\ LebEnd(written)
                            = UnsignedLength(Nat2Big(Len(section.name)))
                       /\ CustomName(written) = section.name
                       /\ CustomData(written) = section.data
                       /\ (LebEnd(payload) = LebEnd(written)) => written = payload

C16_Witness ==
  /\ pc = "written"
  /\ ~mutated
  /\ input = WasmHeader \o <<0, 4, 1, 65, 66, 67>>
  /\ module.v.body.sections = <<CustomSection(<<65>>, <<66, 67>>)>>
  /\ output.v = input

\* the constant expressions of a module: the initialisers of its globals,
\* the offsets and element initialisers of its element segments, the offsets
\* of its data segments
ConstExprsOf(m) ==
  UNION { { d.instructions : d \in Elems(s.descriptors) } :
            s \in SectionsOfClass(m, "GlobalSection") }
  \cup UNION { UNION { ExprsOfSegment(g) : g \in Elems(s.segments) } :
                 s \in SectionsOfClass(m, "ElementSection")
                       \cup SectionsOfClass(m, "DataSection") }

\* C17: every constant-expression instruction list the decoder produces (a
\* global's instructions, an element segment's offset and each element's
\* init, a data segment's offset) is non-empty, ends with opcode 0x0B and
\* has no 0x0B before: decoding stops at and includes the first end.
C17_ConstExprEndsAtFirstEnd ==
  (pc = "decoded" /\ ~mutated) =>
    \A x \in ConstExprsOf(module.v) :
      /\ Len(x) >= 1
      /\ x[Len(x)].opcode = 11
      /\ \A k \in 1..(Len(x) - 1) : x[k].opcode # 11

C17_Witness ==
  /\ pc = "decoded"
  /\ ~mutated
  /\ \E x \in ConstExprsOf(module.v) : Len(x) = 4 /\ x[4].opcode = 11
  /\ SectionsOfClass(module.v, "GlobalSection") # {}

\* bytes made of size-prefixed frames and nothing else
RECURSIVE IsSizedList(_)
IsSizedList(bytes) ==
  IF bytes = <<>> THEN TRUE
  ELSE LET n == LebEnd(bytes)
           value == Big(Payload(bytes, 10), 0)
       IN /\ n > 0
          /\ ~ExceedsBits(value, 20)
          /\ DigitsVal(value.digits) <= Len(bytes) - n
          /\ IsSizedList(SubSeq(bytes, n + DigitsVal(value.digits) + 1, Len(bytes)))

\* the size-prefixed frames of such bytes: the content of each and the bytes
\* after it
RECURSIVE SizedList(_)
SizedList(bytes) ==
  IF bytes = <<>> THEN <<>>
  ELSE LET n == LebEnd(bytes)
           sz == DigitsVal(Big(Payload(bytes, 10), 0).digits)
           after == SubSeq(bytes, n + sz + 1, Len(bytes))
       IN <<[content |-> SubSeq(bytes, n + 1, n + sz), rest |-> after]>>
            \o SizedList(after)

\* instructions read one after another until the cursor is at the limit or
\* past it
RECURSIVE InstructionsUpTo(_, _, _)
InstructionsUpTo(c, limit, instructions) ==
  IF c.offset >= limit THEN Ok(instructions, c)
  ELSE Then(Read("Instruction", c), LAMBDA r :
    InstructionsUpTo(r.c, limit, Append(instructions, r.v)))

\* the locals and instructions of a body read with the bytes after its
\* frame within reach
BodyInReach(content, rest) ==
  Then(Locals_readOrThrow(Cursor(content \o rest)), LAMBDA locals :
    Then(InstructionsUpTo(locals.c, Len(content), <<>>), LAMBDA instructions :
      Ok(FunctionBody(locals.v, instructions.v), instructions.c)))

\* the locals and instructions end exactly where the frame ends and are the
\* body decoded; the body is written as a frame that reads back the same
FillsItsFrame(content, rest, body) ==
  LET inReach == BodyInReach(content, rest)
      written == FunctionBody_writeOrThrow(body)
  IN /\ inReach.ok
     /\ inReach.c.offset = Len(content)
     /\ inReach.v = body
     /\ IsSizedList(written)
     /\ Len(SizedList(written)) = 1
     /\ BodyInReach(SizedList(written)[1].content, <<>>).ok
     /\ BodyInReach(SizedList(written)[1].content, <<>>).v = body

\* the bytes of a code section payload after the count of bodies
AfterCount(payload) == SubSeq(payload, LebEnd(payload) + 1, Len(payload))

\* C18: a function body is decoded inside its own size-prefixed frame:
\* after the locals, instructions are decoded until the frame has no bytes
\* left, so the locals and instructions fill the frame exactly; an
\* instruction whose immediates would extend past the frame makes the decode
\* fail instead of reading into the next body; the terminating end is an
\* ordinary element of the list, neither added on writing nor removed on
\* reading.
C18_BodyFillsItsFrame ==
  (pc = "decoded" /\ ~mutated /\ IsFrames(SubSeq(input, 9, Len(input)))) =>
    LET frames == FramesOf(SubSeq(input, 9, Len(input)))
    IN \A i \in DOMAIN frames :
         (/\ frames[i].kind = CodeSection_kind
          /\ LebEnd(frames[i].payload) > 0
          /\ IsSizedList(AfterCount(frames[i].payload))) =>
           LET bodies == SizedList(AfterCount(frames[i].payload))
               section == module.v.body.sections[i]
           IN /\ Len(section.bodies) = Len(bodies)
              /\ \A k \in DOMAIN bodies :
                   FillsItsFrame(bodies[k].content,
                                 bodies[k].rest \o frames[i].rest,
                                 section.bodies[k])

\* the i32.const that ends the first body has its immediate in the next one
C18_Witness ==
  /\ pc = "failed"
  /\ ~module.ok
  /\ input = WasmHeader \o <<10, 7, 2, 2, 0, 65, 2, 0, 11>>

\* the types of the immediates after an opcode whose immediates are fixed
FixedImmediates(opcode) ==
  CASE opcode \in {\h00, \h01, \h05, \h0a, \h0b, \h0f, \h1a, \h1b,
                   \hd1, \hd3, \hd4} \cup (\h45..\hc4) -> <<>>
  [] opcode \in {\h02, \h03, \h04, \hd0} -> <<"I33">>
  [] opcode \in {\h08, \h0c, \h0d, \h10, \h12, \h14, \h15, \h3f, \h40,
                 \hd2, \hd5, \hd6} \cup (\h20..\h26) -> <<"U32">>
  [] opcode \in {\h11, \h13} \cup (\h28..\h3e) -> <<"U32", "U32">>
  [] opcode = \h41 -> <<"I32">>
  [] opcode = \h42 -> <<"I64">>
  [] opcode = \h43 -> <<"F32">>
  [] opcode = \h44 -> <<"F64">>

\* the number of U32 immediates after a subopcode of the 0xFC prefix
PrefixedImmediates(subopcode) ==
  CASE subopcode \in \h00..\h07 -> 0
  [] subopcode \in {\h09, \h0b, \h0d, \h0f, \h10, \h11} -> 1
  [] subopcode \in {\h08, \h0a, \h0c, \h0e} -> 2

ImmediateTypes(instruction) ==
  [k \in DOMAIN instruction.params |-> instruction.params[k].type]

\* the immediates of a decoded instruction are those its opcode prescribes
HasItsImmediates(instruction) ==
  LET types == ImmediateTypes(instruction)
      count == DigitsVal(instruction.params[1].value.digits)
  IN CASE instruction.opcode = \h0e -> types = [k \in 1..(count + 2) |-> "U32"]
     [] instruction.opcode = \h1c -> types = [k \in 1..(count + 1) |-> "U32"]
     [] instruction.opcode = \h1f ->
          Len(types) >= 2 /\ types[1] = "I33" /\ types[2] = "U32"
     [] instruction.opcode = \hfc ->
          /\ Len(types) >= 1
          /\ count \in \h00..\h11
          /\ types = [k \in 1..(1 + PrefixedImmediates(count)) |-> "U32"]
     [] OTHER -> types = FixedImmediates(instruction.opcode)

\* the instructions read one after another from a cursor, each with the
\* bytes it was read from and whether its LEB128 immediates were minimal
RECURSIVE Spans(_)
Spans(bytes) ==
  IF bytes = <<>> THEN <<>>
  ELSE LET r == Read("Instruction", Cursor(bytes))
       IN IF ~r.ok THEN <<>>
          ELSE <<[bytes |-> SubSeq(bytes, 1, r.c.offset), v |-> r.v,
                  minimal |-> r.c.minimal]>>
                 \o Spans(SubSeq(bytes, r.c.offset + 1, Len(bytes)))

\* the instruction bytes of a function body, after its locals
AfterLocals(content) ==
  LET locals == Locals_readOrThrow(Cursor(content))
  IN IF locals.ok THEN SubSeq(content, locals.c.offset + 1, Len(content))
     ELSE <<>>

\* the spans of the function bodies of the input
BodySpans ==
  LET frames == FramesOf(SubSeq(input, 9, Len(input)))
  IN UNION { UNION { Elems(Spans(AfterLocals(body.content))) :
                       body \in Elems(SizedList(AfterCount(frames[i].payload))) } :
             i \in { j \in DOMAIN frames :
                       /\ frames[j].kind = CodeSection_kind
                       /\ LebEnd(frames[j].payload) > 0
                       /\ IsSizedList(AfterCount(frames[j].payload)) } }

\* one opcode byte, then the prescribed immediates in order
ReadsItsImmediates(span) ==
  /\ span.bytes[1] = span.v.opcode
  /\ HasItsImmediates(span.v)
  /\ span.v.opcode = \h43 => Len(span.bytes) = 5
  /\ span.v.opcode = \h44 => Len(span.bytes) = 9

\* the opcode byte, then each immediate in its stored order
WritesItsImmediates(span) ==
  LET written == Instruction_writeOrThrow(span.v)
      again == Read("Instruction", Cursor(written))
  IN /\ written[1] = span.v.opcode
     /\ Len(written) = Instruction_sizeOrThrow(span.v)
     /\ again.ok
     /\ again.c.offset = Len(written)
     /\ ImmediateTypes(again.v) = ImmediateTypes(span.v)

\* C19: an instruction is decoded as one opcode byte followed by exactly
\* the immediates its opcode prescribes, in order (none for 0x00, 0x01,
\* 0x05, 0x0B, 0x0F and 0x45..0xC4; a block type for 0x02..0x04 and 0xD0;
\* one U32 for 0x0C, 0x0D, 0x10, 0x20..0x26, 0x3F, 0x40, 0xD2; two U32 for
\* 0x11, 0x13 and 0x28..0x3E; an I32 for 0x41, an I64 for 0x42, four bytes
\* for 0x43 and eight for 0x44; after 0xFC a U32 subopcode stored as the
\* first immediate and then 0, 1 or 2 U32); it is encoded as the opcode byte
\* followed by each immediate in its stored order, so an instruction whose
\* LEB128 immediates are minimal is written back as the bytes it was read
\* from.
C19_InstructionLayout ==
  (pc = "decoded" /\ ~mutated /\ IsFrames(SubSeq(input, 9, Len(input)))) =>
    \A span \in BodySpans :
      /\ ReadsItsImmediates(span)
      /\ WritesItsImmediates(span)
      /\ span.minimal => Instruction_writeOrThrow(span.v) = span.bytes

\* the primary opcode bytes outside the opcode table
UnknownOpcodes ==
  {\h06, \h07, \h09, \h1d, \h1e, \h27}
    \cup (\h16..\h19) \cup (\hc5..\hcf) \cup (\hd7..\hfb) \cup (\hfd..\hff)

NoOffence == [v |-> "none", at |-> "none"]

\* the unknown opcode or subopcode the bytes start with, if any
Offence(bytes) ==
  LET subopcode == Big(Payload(Tail(bytes), 10), 0)
  IN IF bytes = <<>> THEN NoOffence
     ELSE IF bytes[1] \in UnknownOpcodes
       THEN [v |-> "Unknown opcode", at |-> bytes[1]]
     ELSE IF /\ bytes[1] = \hfc
             /\ LebEnd(Tail(bytes)) > 0
             /\ ~ExceedsBits(subopcode, 32)
             /\ (ExceedsBits(subopcode, 5) \/ DigitsVal(subopcode.digits) > \h11)
       THEN [v |-> "Unknown sub-opcode", at |-> subopcode]
     ELSE NoOffence

\* the bytes left when instructions are read one after another: none when
\* every byte was read (or, in a constant expression, an end was read),
\* otherwise the bytes from the first unknown opcode or subopcode, or from
\* the instruction whose read failed
RECURSIVE Unread(_, _)
Unread(bytes, isExpr) ==
  IF bytes = <<>> THEN <<>>
  ELSE IF Offence(bytes).v # "none" THEN bytes
  ELSE LET r == Read("Instruction", Cursor(bytes))
       IN IF ~r.ok THEN bytes
          ELSE IF isExpr /\ r.v.opcode = \h0b THEN <<>>
          ELSE Unread(SubSeq(bytes, r.c.offset + 1, Len(bytes)), isExpr)

\* a body read without failure
ReadsClean(content) ==
  /\ Locals_readOrThrow(Cursor(content)).ok
  /\ Unread(AfterLocals(content), FALSE) = <<>>

\* the offence of the first function body that is not read without failure,
\* among the bodies the count of the section reaches
CodeOffence(payload) ==
  LET bodies == SizedList(AfterCount(payload))
      count == Big(Payload(payload, 10), 0)
      reached == { k \in DOMAIN bodies :
                     /\ NatLtBig(k - 1, count)
                     /\ \A j \in 1..(k - 1) : ReadsClean(bodies[j].content) }
      failing == { k \in reached :
                     /\ Locals_readOrThrow(Cursor(bodies[k].content)).ok
                     /\ ~ReadsClean(bodies[k].content) }
  IN IF LebEnd(payload) = 0 \/ ExceedsBits(count, 32)
          \/ ~IsSizedList(AfterCount(payload)) \/ failing = {}
       THEN NoOffence
     ELSE Offence(Unread(AfterLocals(bodies[CHOOSE k \in failing : TRUE].content),
                         FALSE))

\* the bytes from the first constant expression of a global section (after
\* a number type and a mutability), or of an element or data section whose
\* first segment has flag 0
FirstExpr(kind, payload) ==
  LET count == Big(Payload(payload, 10), 0)
      after == AfterCount(payload)
  IN IF LebEnd(payload) = 0 \/ ExceedsBits(count, 32) \/ count = BigZero
       THEN <<>>
     ELSE IF /\ kind = GlobalSection_kind
             /\ Len(after) >= 2
             /\ after[1] \in \h7C..\h7F
             /\ after[2] \in {0, 1}
       THEN SubSeq(after, 3, Len(after))
     ELSE IF /\ kind \in {ElementSection_kind, DataSection_kind}
             /\ Len(after) >= 1
             /\ after[1] = 0
       THEN Tail(after)
     ELSE <<>>

\* the offence of a section frame
FrameOffence(frame) ==
  IF frame.kind = CodeSection_kind THEN CodeOffence(frame.payload)
  ELSE IF frame.kind \in {GlobalSection_kind, ElementSection_kind, DataSection_kind}
    THEN Offence(Unread(FirstExpr(frame.kind, frame.payload), TRUE))
  ELSE NoOffence

\* C20: decoding fails, and neither an instruction nor a module results,
\* for every primary opcode byte outside the opcode table (0x06, 0x07, 0x09,
\* 0x16..0x19, 0x1D, 0x1E, 0x27, 0xC5..0xCF, 0xD7..0xFB, 0xFD..0xFF) and for
\* every subopcode above 0x11 after 0xFC, in a function body and in a
\* constant expression alike; the error carries the offending opcode or
\* subopcode (it is the error of the decode when only sections of unknown
\* kind come before).
C20_UnknownOpcodeFails ==
  (pc \in {"decoded", "failed"} /\ ~mutated
     /\ IsFrames(SubSeq(input, 9, Len(input)))) =>
    LET frames == FramesOf(SubSeq(input, 9, Len(input)))
    IN /\ \A i \in DOMAIN frames :
            FrameOffence(frames[i]).v # "none" =>
              /\ pc = "failed"
              /\ ~module.ok
              /\ (\A j \in 1..(i - 1) : frames[j].kind > \h0d) =>
                   /\ module.v = FrameOffence(frames[i]).v
                   /\ module.at = FrameOffence(frames[i]).at
       /\ \A opcode \in UnknownOpcodes :
            LET r == Read("Instruction", Cursor(<<opcode>> \o SubSeq(input, 9, Len(input))))
            IN ~r.ok /\ r.v = "Unknown opcode" /\ r.at = opcode

\* a function body that is the subopcode 0x12 after 0xFC
C20_Witness ==
  /\ pc = "failed"
  /\ input = WasmHeader \o <<10, 6, 1, 4, 0, \hfc, \h12, \h0b>>
  /\ module.v = "Unknown sub-opcode"
  /\ module.at = Nat2Big(\h12)

\* the bytes after a length-prefixed byte string, when the bytes start
\* with one
AfterBlob(bytes) ==
  LET n == LebEnd(bytes)
      value == Big(Payload(bytes, 10), 0)
      fits == /\ n > 0
              /\ ~ExceedsBits(value, 20)
              /\ DigitsVal(value.digits) <= Len(bytes) - n
  IN [ok |-> fits,
      rest |-> IF fits THEN SubSeq(bytes, n + DigitsVal(value.digits) + 1, Len(bytes))
               ELSE <<>>]

\* the bytes after n U32 in LEB128
RECURSIVE AfterLebs(_, _)
AfterLebs(bytes, n) ==
  IF n = 0 THEN [ok |-> TRUE, rest |-> bytes]
  ELSE IF LebEnd(bytes) = 0 \/ ExceedsBits(Big(Payload(bytes, 10), 0), 32)
    THEN [ok |-> FALSE, rest |-> <<>>]
  ELSE AfterLebs(SubSeq(bytes, LebEnd(bytes) + 1, Len(bytes)), n - 1)

\* the bytes after a count and that many U32
AfterU32List(bytes) ==
  LET count == Big(Payload(bytes, 10), 0)
  IN IF LebEnd(bytes) = 0 \/ ExceedsBits(count, 5)
       THEN [ok |-> FALSE, rest |-> <<>>]
     ELSE AfterLebs(SubSeq(bytes, LebEnd(bytes) + 1, Len(bytes)),
                    DigitsVal(count.digits))

\* the discriminator of the entry the bytes start with, when it is outside
\* its known set
Discriminator(kind, bytes) ==
  LET name == AfterBlob(AfterBlob(bytes).rest)
      typeKind == IF bytes[1] \in {\h4E, \h4D} THEN AfterU32List(Tail(bytes))
                  ELSE [ok |-> TRUE, rest |-> Tail(bytes)]
  IN IF bytes = <<>> THEN NoOffence
     ELSE IF kind = ImportSection_kind
       THEN IF /\ AfterBlob(bytes).ok
               /\ name.ok
               /\ name.rest # <<>>
               /\ name.rest[1] \notin {0, 1, 2, 3}
              THEN [v |-> "Unknown import", at |-> name.rest[1]]
            ELSE NoOffence
     ELSE IF kind = ElementSection_kind
       THEN IF bytes[1] \notin 0..7
              THEN [v |-> "Unknown element segment flag", at |-> bytes[1]]
            ELSE NoOffence
     ELSE IF kind = DataSection_kind
       THEN IF bytes[1] \notin {0, 1, 2}
              THEN [v |-> "Unknown data segment flag", at |-> bytes[1]]
            ELSE NoOffence
     ELSE IF kind = TypeSection_kind
       THEN IF /\ bytes[1] # \h60
               /\ typeKind.ok
               /\ typeKind.rest # <<>>
               /\ typeKind.rest[1] \notin {\h60, \h5E, \h5F}
              THEN [v |-> "Unknown section", at |-> typeKind.rest[1]]
            ELSE NoOffence
     ELSE NoOffence

\* one entry of a section of the given kind
Entry_readOrThrow(kind, c) ==
  CASE kind = ImportSection_kind -> ImportDescriptor_readOrThrow(c)
  [] kind = ElementSection_kind -> ElementSegment_readOrThrow(c)
  [] kind = DataSection_kind -> DataSegment_readOrThrow(c)
  [] kind = TypeSection_kind -> TypeDescriptor_readOrThrow(c)

\* the first discriminator outside its known set among the first n entries
\* the bytes hold
RECURSIVE EntryOffence(_, _, _)
EntryOffence(kind, bytes, n) ==
  IF n = 0 \/ bytes = <<>> THEN NoOffence
  ELSE IF Discriminator(kind, bytes).v # "none" THEN Discriminator(kind, bytes)
  ELSE LET r == Entry_readOrThrow(kind, Cursor(bytes))
       IN IF ~r.ok THEN NoOffence
          ELSE EntryOffence(kind, SubSeq(bytes, r.c.offset + 1, Len(bytes)), n - 1)

\* the discriminator offence of a section frame
SectionOffence(frame) ==
  LET count == Big(Payload(frame.payload, 10), 0)
  IN IF \/ frame.kind \notin {ImportSection_kind, ElementSection_kind,
                              DataSection_kind, TypeSection_kind}
        \/ LebEnd(frame.payload) = 0
        \/ ExceedsBits(count, 5)
       THEN NoOffence
     ELSE EntryOffence(frame.kind, AfterCount(frame.payload),
                       DigitsVal(count.digits))

\* C21: decoding fails with no partial result whenever a discriminator is
\* outside its known set: an import kind outside {0,1,2,3}, an element
\* segment flag outside 0..7, a data segment flag outside {0,1,2}, or a type
\* kind byte other than 0x60, 0x5E, 0x5F after a prefix that is not 0x60.
\* The whole decode of the module fails: the entries and the sections decoded
\* before the failing one are not returned.
C21_UnknownDiscriminatorFails ==
  (pc \in {"decoded", "failed"} /\ ~mutated
     /\ IsFrames(SubSeq(input, 9, Len(input)))) =>
    LET frames == FramesOf(SubSeq(input, 9, Len(input)))
    IN \A i \in DOMAIN frames :
         SectionOffence(frames[i]).v # "none" =>
           /\ pc = "failed"
           /\ ~module.ok
           /\ module.v \in STRING
           /\ (\A j \in 1..(i - 1) : frames[j].kind > \h0d) =>
                /\ module.v = SectionOffence(frames[i]).v
                /\ module.at = SectionOffence(frames[i]).at

\* a data segment with flag 3 in a second section, after a section that
\* decodes
C21_Witness ==
  /\ pc = "failed"
  /\ ~module.ok
  /\ input = (WasmHeader \o Frame(StartSection_kind, <<5>>))
                \o Frame(DataSection_kind, <<1, 3>>)
  /\ module.v = "Unknown data segment flag"
  /\ module.at = 3

\* the bytes of each frame of bytes that satisfy IsFrames, size field
\* included
RECURSIVE RawFrames(_)
RawFrames(bytes) ==
  IF bytes = <<>> THEN <<>>
  ELSE LET after == FramesOf(bytes)[1].rest
       IN <<SubSeq(bytes, 1, Len(bytes) - Len(after))>> \o RawFrames(after)

\* the minimal unsigned LEB128 of a value: its base-128 digits, low digit
\* first, each but the last with the continuation bit
MinimalLeb(value) ==
  IF value.digits = <<>> THEN <<0>>
  ELSE [k \in DOMAIN value.digits |->
          IF k < Len(value.digits) THEN value.digits[k] + 128 ELSE value.digits[k]]

\* the positions where module.v is the decoded module with a new u32
\* assigned to the funcidx of a start section
StartEdits ==
  LET before == decode(input).v.body.sections
      after == module.v.body.sections
  IN { i \in DOMAIN before :
         /\ Len(after) = Len(before)
         /\ before[i].class = "StartSection"
         /\ after[i].class = "StartSection"
         /\ after[i].funcidx # before[i].funcidx
         /\ ~ExceedsBits(after[i].funcidx, 32)
         /\ \A j \in DOMAIN before : j # i => after[j] = before[j] }

\* C22: re-encoding a decoded module after assigning a new u32 value v to
\* StartSection.funcidx changes only the frame of the start section: the
\* header and the bytes of every other section frame are those of the input,
\* in the same order, and the start frame is the kind 0x08, the length of the
\* LEB128 of v as size, and the minimal LEB128 of v (00 61 73 6D 01 00 00 00
\* 08 01 03 with funcidx = 0 gives 00 61 73 6D 01 00 00 00 08 01 00).
C22_StartEditIsLocal ==
  (pc = "written" /\ mutated /\ IsFrames(SubSeq(input, 9, Len(input)))) =>
    \A i \in StartEdits :
      LET before == RawFrames(SubSeq(input, 9, Len(input)))
          after == RawFrames(SubSeq(output.v, 9, Len(output.v)))
          v == MinimalLeb(module.v.body.sections[i].funcidx)
      IN /\ SubSeq(output.v, 1, 8) = SubSeq(input, 1, 8)
         /\ IsFrames(SubSeq(output.v, 9, Len(output.v)))
         /\ Len(after) = Len(before)
         /\ after[i] = (<<\h08, Len(v)>> \o v)
         /\ \A j \in DOMAIN before : j # i => after[j] = before[j]

\* the instruction bytes after the opcode are n U32 in LEB128 and nothing
\* else
IsLebs(span, n) ==
  /\ AfterLebs(Tail(span.bytes), n).ok
  /\ AfterLebs(Tail(span.bytes), n).rest = <<>>

\* the value of the first immediate, a count
FirstParam(instruction) == DigitsVal(instruction.params[1].value.digits)

\* the immediates of the instruction are n U32
HasU32Params(instruction, n) ==
  ImmediateTypes(instruction) = [k \in 1..n |-> "U32"]

\* C23: for opcode 0x0E the decoder reads a U32 count N, N U32 labels and one
\* U32 fallback and stores them as [count, label_1..label_N, fallback]: a
\* decoded br_table has exactly N+2 immediates, N being the value of the
\* first; a decoded 0x1C has exactly N+1 immediates, N being the value of the
\* first.
C23_CountedImmediates ==
  (pc = "decoded" /\ ~mutated /\ IsFrames(SubSeq(input, 9, Len(input)))) =>
    /\ \A instruction \in InstructionsOf(module.v) :
         /\ instruction.opcode = \h0e =>
              HasU32Params(instruction, FirstParam(instruction) + 2)
         /\ instruction.opcode = \h1c =>
              HasU32Params(instruction, FirstParam(instruction) + 1)
    /\ \A span \in BodySpans :
         /\ span.v \in InstructionsOf(module.v)
         /\ span.v.opcode = \h0e => IsLebs(span, FirstParam(span.v) + 2)
         /\ span.v.opcode = \h1c => IsLebs(span, FirstParam(span.v) + 1)

\* a br_table with two labels and a fallback
C23_Witness ==
  /\ pc = "decoded"
  /\ ~mutated
  /\ IsFrames(SubSeq(input, 9, Len(input)))
  /\ \E span \in BodySpans :
       /\ span.bytes = <<\h0e, \h02, \h00, \h01, \h00>>
       /\ Len(span.v.params) = 4
       /\ span.v \in InstructionsOf(module.v)

\* the first n LEB128 fields of the bytes are minimal: each ends, and ends
\* with a byte that is not zero unless it is the only one
RECURSIVE LebsMinimal(_, _)
LebsMinimal(bytes, n) ==
  IF n = 0 THEN TRUE
  ELSE /\ LebEnd(bytes) > 0
       /\ (LebEnd(bytes) = 1 \/ bytes[LebEnd(bytes)] # 0)
       /\ LebsMinimal(SubSeq(bytes, LebEnd(bytes) + 1, Len(bytes)), n - 1)

\* n catch clauses at the start of the bytes: a kind byte, then two U32 when
\* the kind is below 2 and one U32 otherwise
RECURSIVE Clauses(_, _)
Clauses(bytes, n) ==
  IF n = 0 THEN [ok |-> TRUE, rest |-> bytes, types |-> <<>>, minimal |-> TRUE]
  ELSE IF bytes = <<>>
    THEN [ok |-> FALSE, rest |-> <<>>, types |-> <<>>, minimal |-> FALSE]
  ELSE LET k == IF bytes[1] < 2 THEN 2 ELSE 1
           indexes == AfterLebs(Tail(bytes), k)
           more == Clauses(indexes.rest, n - 1)
       IN [ok |-> indexes.ok /\ more.ok,
           rest |-> more.rest,
           types |-> (<<"U8">> \o [j \in 1..k |-> "U32"]) \o more.types,
           minimal |-> LebsMinimal(Tail(bytes), k) /\ more.minimal]

\* the bytes of a try_table after its block type and count
ClauseBytes(span) == AfterLebs(Tail(span.bytes), 2).rest

\* the immediates of a try_table after its block type and count, written
\* one after the other
RECURSIVE WriteParamsFrom(_, _)
WriteParamsFrom(params, k) ==
  IF k > Len(params) THEN <<>>
  ELSE Param_writeOrThrow(params[k]) \o WriteParamsFrom(params, k + 1)

\* a block type, a count N and N clauses, stored in that order
IsTryTable(span) ==
  LET n == DigitsVal(span.v.params[2].value.digits)
      clauses == Clauses(ClauseBytes(span), n)
  IN /\ AfterLebs(Tail(span.bytes), 2).ok
     /\ clauses.ok
     /\ clauses.rest = <<>>
     /\ ImmediateTypes(span.v) = <<"I33", "U32">> \o clauses.types
     /\ \A k \in 3..Len(span.v.params) :
          span.v.params[k].type = "U8" =>
            span.v.params[k].value \in 0..255
     /\ Instruction_writeOrThrow(span.v) =
          (<<\h1f>> \o Param_writeOrThrow(span.v.params[1]))
            \o (Param_writeOrThrow(span.v.params[2]) \o WriteParamsFrom(span.v.params, 3))

\* the clauses are written back as the bytes they were read from
ClausesReproduced(span) == WriteParamsFrom(span.v.params, 3) = ClauseBytes(span)

\* the indexes of the clauses are minimal LEB128
ClausesMinimal(span) ==
  Clauses(ClauseBytes(span), DigitsVal(span.v.params[2].value.digits)).minimal

\* C24 as stated: for opcode 0x1F the decoder reads an I33 block type, a U32
\* count N and N catch clauses, each a kind byte followed by two U32 when the
\* kind is below 2 and by one U32 otherwise; the immediates stored are the
\* block type, the count and then each clause's kind and U32s, and writing
\* them back in order reproduces the bytes of the clauses.
C24_TryTableLayout ==
  (pc = "decoded" /\ ~mutated /\ IsFrames(SubSeq(input, 9, Len(input)))) =>
    \A span \in BodySpans :
      span.v.opcode = \h1f => (IsTryTable(span) /\ ClausesReproduced(span))

\* C24 amended: the same layout; the bytes of the clauses are reproduced
\* when their indexes are minimal LEB128 (the encoder always writes the
\* minimal form).
C24_TryTableLayoutMinimal ==
  (pc = "decoded" /\ ~mutated /\ IsFrames(SubSeq(input, 9, Len(input)))) =>
    \A span \in BodySpans :
      span.v.opcode = \h1f =>
        /\ IsTryTable(span)
        /\ ClausesMinimal(span) => ClausesReproduced(span)

\* a try_table with a clause of each shape, indexes minimal
C24_Witness ==
  /\ pc = "decoded"
  /\ ~mutated
  /\ IsFrames(SubSeq(input, 9, Len(input)))
  /\ \E span \in BodySpans :
       /\ span.bytes = <<\h1f, \h40, \h02, \h00, \h01, \h00, \h02, \h00>>
       /\ ClausesMinimal(span)
       /\ Len(span.v.params) = 7

\* bit 0 of a byte
Bit0(byte) == byte - 2 * (byte \div 2)

NoEntries == [ok |-> FALSE, rest |-> <<>>, flags |-> <<>>]

\* limits at the start of the bytes, after skip bytes: a flag byte, a U32
\* and, when bit 0 of the flag is set, a second U32
LimitsAt(bytes, skip) ==
  LET fields == AfterLebs(SubSeq(bytes, skip + 2, Len(bytes)),
                          1 + Bit0(bytes[skip + 1]))
  IN IF Len(bytes) < skip + 1 \/ ~fields.ok THEN NoEntries
     ELSE [ok |-> TRUE, rest |-> fields.rest, flags |-> <<bytes[skip + 1]>>]

\* n limits one after the other, each after skip bytes: the flags read and
\* the bytes that follow
RECURSIVE LimitsList(_, _, _)
LimitsList(bytes, n, skip) ==
  IF n = 0 THEN [ok |-> TRUE, rest |-> bytes, flags |-> <<>>]
  ELSE LET first == LimitsAt(bytes, skip)
           more == LimitsList(first.rest, n - 1, skip)
       IN IF ~first.ok \/ ~more.ok THEN NoEntries
          ELSE [ok |-> TRUE, rest |-> more.rest, flags |-> first.flags \o more.flags]

\* one import: two names, a kind byte and a body; the flag of a table or
\* memory import, -1 for a function or global import
ImportAt(bytes) ==
  LET name == AfterBlob(AfterBlob(bytes).rest)
      body == Tail(name.rest)
      typeidx == AfterLebs(body, 1)
  IN IF ~AfterBlob(bytes).ok \/ ~name.ok \/ name.rest = <<>> THEN NoEntries
     ELSE CASE name.rest[1] = 0 ->
                 IF typeidx.ok THEN [ok |-> TRUE, rest |-> typeidx.rest, flags |-> <<-1>>]
                 ELSE NoEntries
          [] name.rest[1] = 1 -> LimitsAt(body, 1)
          [] name.rest[1] = 2 -> LimitsAt(body, 0)
          [] name.rest[1] = 3 ->
                 IF Len(body) >= 2
                   THEN [ok |-> TRUE, rest |-> SubSeq(body, 3, Len(body)), flags |-> <<-1>>]
                 ELSE NoEntries
          [] OTHER -> NoEntries

RECURSIVE ImportList(_, _)
ImportList(bytes, n) ==
  IF n = 0 THEN [ok |-> TRUE, rest |-> bytes, flags |-> <<>>]
  ELSE LET first == ImportAt(bytes)
           more == ImportList(first.rest, n - 1)
       IN IF ~first.ok \/ ~more.ok THEN NoEntries
          ELSE [ok |-> TRUE, rest |-> more.rest, flags |-> first.flags \o more.flags]

\* the entries of a table, memory or import section payload read by the
\* shape that bit 0 of each flag gives
LimitsOfPayload(kind, payload) ==
  LET count == Big(Payload(payload, 10), 0)
      n == DigitsVal(count.digits)
      after == AfterCount(payload)
  IN IF LebEnd(payload) = 0 \/ ExceedsBits(count, 5) THEN NoEntries
     ELSE CASE kind = TableSection_kind -> LimitsList(after, n, 1)
          [] kind = MemorySection_kind -> LimitsList(after, n, 0)
          [] kind = ImportSection_kind -> ImportList(after, n)
          [] OTHER -> NoEntries

\* the limits-shaped values of a decoded section, in order; a function or
\* global import gives flag -1
LimitsOfSection(section) ==
  IF section.class \in {"TableSection", "MemorySection"} THEN section.descriptors
  ELSE IF section.class = "ImportSection"
    THEN [k \in DOMAIN section.descriptors |->
            IF section.descriptors[k].body.class \in {"TableImport", "MemoryImport"}
              THEN section.descriptors[k].body
            ELSE [flag |-> -1, max |-> Null]]
  ELSE <<>>

\* the payload is entries of that shape and nothing else
ShapedByBit0(frame) ==
  /\ LimitsOfPayload(frame.kind, frame.payload).ok
  /\ LimitsOfPayload(frame.kind, frame.payload).rest = <<>>

\* C25: in every limits-shaped value the decoder produces (TableImport,
\* MemoryImport, TableDescriptor, MemoryDescriptor) max is present if and only
\* if bit 0 of flag is set; the other bits of the flag do not change the
\* shape read, and the flag is kept as the byte read.
C25_MaxIffBit0 ==
  (pc \in {"decoded", "failed"} /\ ~mutated
     /\ IsFrames(SubSeq(input, 9, Len(input)))) =>
    LET frames == FramesOf(SubSeq(input, 9, Len(input)))
    IN /\ (Len(frames) = 1 /\ ShapedByBit0(frames[1])) => module.ok
       /\ module.ok =>
            \A i \in DOMAIN frames :
              LET limits == LimitsOfSection(module.v.body.sections[i])
              IN /\ \A k \in DOMAIN limits :
                      limits[k].flag # -1 =>
                        ((limits[k].max # Null) <=> (Bit0(limits[k].flag) = 1))
                 /\ frames[i].kind \in {TableSection_kind, MemorySection_kind,
                                        ImportSection_kind} =>
                      /\ ShapedByBit0(frames[i])
                      /\ [k \in DOMAIN limits |-> limits[k].flag]
                           = LimitsOfPayload(frames[i].kind, frames[i].payload).flags

\* a table whose flag is 0xFF: max is read
C25_Witness ==
  /\ pc = "decoded"
  /\ ~mutated
  /\ input = WasmHeader \o <<\h04, \h05, \h01, \h70, \hFF, \h01, \h02>>
  /\ module.v.body.sections[1].descriptors[1].flag = \hFF
  /\ module.v.body.sections[1].descriptors[1].max = NotNull(Nat2Big(2))

\* the fields after the flag of an element segment, in the order of the
\* layout table
ElementLayout(flag) ==
  CASE flag \in {0, 4} -> <<"instructions", "funcidxs">>
  [] flag \in {1, 3} -> <<"reftype", "elements">>
  [] flag = 2 -> <<"tableidx", "instructions", "reftype", "elements">>
  [] flag \in {5, 7} -> <<"reftype", "funcidxs">>
  [] flag = 6 -> <<"tableidx", "instructions", "reftype", "funcidxs">>
  [] OTHER -> <<"unknown">>

\* the fields after the flag of a data segment
DataLayout(flag) ==
  CASE flag = 0 -> <<"instructions", "data">>
  [] flag = 1 -> <<"data">>
  [] flag = 2 -> <<"memidx", "instructions", "data">>
  [] OTHER -> <<"unknown">>

NoField == [ok |-> FALSE, v |-> <<>>, rest |-> <<>>]

\* one U32 in LEB128 at the start of the bytes
U32Field(bytes) ==
  IF AfterLebs(bytes, 1).ok
    THEN [ok |-> TRUE, v |-> Big(Payload(bytes, 10), 0), rest |-> AfterLebs(bytes, 1).rest]
  ELSE NoField

\* n fields of one kind, one after the other
RECURSIVE FieldList(_, _, _)

\* a constant expression: instructions up to the first end
RECURSIVE ExprField(_, _)
ExprField(bytes, instructions) ==
  IF bytes = <<>> THEN NoField
  ELSE LET r == Read("Instruction", Cursor(bytes))
           rest == SubSeq(bytes, r.c.offset + 1, Len(bytes))
       IN IF ~r.ok THEN NoField
          ELSE IF r.v.opcode = \h0b
            THEN [ok |-> TRUE, v |-> Append(instructions, r.v), rest |-> rest]
          ELSE ExprField(rest, Append(instructions, r.v))

\* a count and that many fields of one kind
CountedField(name, bytes) ==
  LET count == U32Field(bytes)
  IN IF ~count.ok \/ ExceedsBits(count.v, 5) THEN NoField
     ELSE FieldList(name, count.rest, DigitsVal(count.v.digits))

\* the field of the given name at the start of the bytes
Field(name, bytes) ==
  CASE name \in {"tableidx", "memidx", "funcidx"} -> U32Field(bytes)
  [] name = "reftype" ->
       IF bytes = <<>> THEN NoField
       ELSE [ok |-> TRUE, v |-> bytes[1], rest |-> Tail(bytes)]
  [] name \in {"instructions", "element"} -> ExprField(bytes, <<>>)
  [] name = "funcidxs" -> CountedField("funcidx", bytes)
  [] name = "elements" -> CountedField("element", bytes)
  [] name = "data" ->
       IF AfterBlob(bytes).ok
         THEN [ok |-> TRUE,
               v |-> SubSeq(bytes, LebEnd(bytes) + 1,
                            Len(bytes) - Len(AfterBlob(bytes).rest)),
               rest |-> AfterBlob(bytes).rest]
       ELSE NoField
  [] OTHER -> NoField

FieldList(name, bytes, n) ==
  IF n = 0 THEN [ok |-> TRUE, v |-> <<>>, rest |-> bytes]
  ELSE LET first == Field(name, bytes)
           more == FieldList(name, first.rest, n - 1)
       IN IF ~first.ok \/ ~more.ok THEN NoField
          ELSE [ok |-> TRUE, v |-> <<first.v>> \o more.v, rest |-> more.rest]

\* the named fields one after the other, gathered in a record
RECURSIVE Fields(_, _, _)
Fields(names, bytes, record) ==
  IF names = <<>> THEN [ok |-> TRUE, v |-> record, rest |-> bytes]
  ELSE LET first == Field(Head(names), bytes)
       IN IF ~first.ok THEN NoField
          ELSE Fields(Tail(names), first.rest, record @@ (Head(names) :> first.v))

\* a segment: the flag byte, then the fields of its layout
SegmentAt(kind, bytes) ==
  IF bytes = <<>> THEN NoField
  ELSE Fields(IF kind = ElementSection_kind THEN ElementLayout(bytes[1])
              ELSE DataLayout(bytes[1]),
              Tail(bytes), [flag |-> bytes[1]])

RECURSIVE SegmentList(_, _, _)
SegmentList(kind, bytes, n) ==
  IF n = 0 THEN [ok |-> TRUE, v |-> <<>>, rest |-> bytes]
  ELSE LET first == SegmentAt(kind, bytes)
           more == SegmentList(kind, first.rest, n - 1)
       IN IF ~first.ok \/ ~more.ok THEN NoField
          ELSE [ok |-> TRUE, v |-> <<first.v>> \o more.v, rest |-> more.rest]

\* the segments of an element or data section payload, by the layout table
SegmentsOfPayload(kind, payload) ==
  LET count == U32Field(payload)
  IN IF ~count.ok \/ ExceedsBits(count.v, 5) THEN NoField
     ELSE SegmentList(kind, count.rest, DigitsVal(count.v.digits))

\* the payload is the segments and nothing else
IsSegments(frame, segments) ==
  /\ SegmentsOfPayload(frame.kind, frame.payload).ok
  /\ SegmentsOfPayload(frame.kind, frame.payload).rest = <<>>
  /\ SegmentsOfPayload(frame.kind, frame.payload).v = segments

\* C26: for each element segment flag 0..7 and each data segment flag 0..2
\* the decoder reads exactly the fields of the layout table, in its order
\* (element flag 2: U32 tableidx, const-expr, reftype byte, U32 N, N
\* const-exprs; data flag 2: U32 memidx, const-expr, U32 len, len bytes), and
\* the encoder writes the flag byte and then the same fields in the same
\* order, every count and length prefix being the current length of the list
\* or byte array.
C26_SegmentLayout ==
  /\ (pc \in {"decoded", "failed"} /\ ~mutated
        /\ IsFrames(SubSeq(input, 9, Len(input)))) =>
       LET frames == FramesOf(SubSeq(input, 9, Len(input)))
       IN /\ (/\ Len(frames) = 1
              /\ frames[1].kind \in {ElementSection_kind, DataSection_kind}
              /\ SegmentsOfPayload(frames[1].kind, frames[1].payload).ok
              /\ SegmentsOfPayload(frames[1].kind, frames[1].payload).rest = <<>>)
               => module.ok
          /\ module.ok =>
               \A i \in DOMAIN frames :
                 frames[i].kind \in {ElementSection_kind, DataSection_kind} =>
                   IsSegments(frames[i], module.v.body.sections[i].segments)
  /\ pc = "written" =>
       /\ IsFrames(SubSeq(output.v, 9, Len(output.v)))
       /\ LET frames == FramesOf(SubSeq(output.v, 9, Len(output.v)))
          IN /\ Len(frames) = Len(module.v.body.sections)
             /\ \A i \in DOMAIN frames :
                  module.v.body.sections[i].class \in {"ElementSection", "DataSection"} =>
                    /\ frames[i].kind \in {ElementSection_kind, DataSection_kind}
                    /\ IsSegments(frames[i], module.v.body.sections[i].segments)

\* an element segment of flag 0 with a function index pushed onto its two:
\* the count written is 3
C26_Witness ==
  /\ pc = "written"
  /\ mutated
  /\ input = WasmHeader \o <<\h09, \h08, \h01, \h00, \h41, \h00, \h0b, \h02, \h00, \h01>>
  /\ output.v = WasmHeader \o <<\h09, \h09, \h01, \h00, \h41, \h00, \h0b, \h03, \h00, \h01, \h04>>

\* the body of a type after its kind
TypeBodyAt(kind, bytes) ==
  CASE kind = \h60 -> FuncType_readOrThrow(Cursor(bytes))
  [] kind = \h5E -> StructType_readOrThrow(Cursor(bytes))
  [] kind = \h5F -> ArrayType_readOrThrow(Cursor(bytes))
  [] OTHER -> Throw("no body")

\* a type descriptor at the start of the bytes, by its prefix: 0x60 and a
\* function type; or 0x4E or 0x4D, a counted list of U32, a kind byte and a
\* body; or another prefix, a kind byte and a body
TypeAt(bytes) ==
  LET prefix == bytes[1]
      subtypes == IF prefix \in {\h4E, \h4D} THEN CountedField("funcidx", Tail(bytes))
                  ELSE [ok |-> TRUE, v |-> <<>>, rest |-> Tail(bytes)]
      kinded == IF prefix = \h60 THEN bytes ELSE subtypes.rest
      body == TypeBodyAt(kinded[1], Tail(kinded))
  IN IF bytes = <<>> \/ ~subtypes.ok \/ kinded = <<>> THEN NoField
     ELSE IF ~body.ok THEN NoField
     ELSE [ok |-> TRUE,
           v |-> [prefix |-> prefix, subtypes |-> subtypes.v, body |-> body.v],
           rest |-> SubSeq(kinded, body.c.offset + 2, Len(kinded))]

RECURSIVE TypeList(_, _)
TypeList(bytes, n) ==
  IF n = 0 THEN [ok |-> TRUE, v |-> <<>>, rest |-> bytes]
  ELSE LET first == TypeAt(bytes)
           more == TypeList(first.rest, n - 1)
       IN IF ~first.ok \/ ~more.ok THEN NoField
          ELSE [ok |-> TRUE, v |-> <<first.v>> \o more.v, rest |-> more.rest]

\* the descriptors of a type section payload
TypesOfPayload(payload) ==
  LET count == U32Field(payload)
  IN IF ~count.ok \/ ExceedsBits(count.v, 5) THEN NoField
     ELSE TypeList(count.rest, DigitsVal(count.v.digits))

\* the payload is the descriptors and nothing else
IsTypes(payload, descriptors) ==
  /\ TypesOfPayload(payload).ok
  /\ TypesOfPayload(payload).rest = <<>>
  /\ TypesOfPayload(payload).v = descriptors

\* C27: a type descriptor is decoded by its prefix byte: 0x60 is followed
\* directly by a function type, without kind byte, and has no subtypes; 0x4E
\* or 0x4D is followed by a counted list of U32 subtypes, a kind byte and the
\* body; any other prefix has no subtypes and is followed by a kind byte and
\* the body.  The encoder writes the same shape from the stored prefix,
\* subtypes and kind of the body, so a decoded type section is written as
\* bytes that decode to an equal type section.
C27_TypeDescriptorShape ==
  /\ (pc \in {"decoded", "failed"} /\ ~mutated
        /\ IsFrames(SubSeq(input, 9, Len(input)))) =>
       LET frames == FramesOf(SubSeq(input, 9, Len(input)))
       IN /\ (/\ Len(frames) = 1
              /\ frames[1].kind = TypeSection_kind
              /\ TypesOfPayload(frames[1].payload).ok
              /\ TypesOfPayload(frames[1].payload).rest = <<>>) => module.ok
          /\ module.ok =>
               \A i \in DOMAIN frames :
                 frames[i].kind = TypeSection_kind =>
                   /\ IsTypes(frames[i].payload, module.v.body.sections[i].descriptors)
                   /\ \A d \in Elems(module.v.body.sections[i].descriptors) :
                        d.prefix \notin {\h4E, \h4D} => d.subtypes = <<>>
  /\ pc \in {"written", "done"} =>
       /\ IsFrames(SubSeq(output.v, 9, Len(output.v)))
       /\ \A i \in DOMAIN module.v.body.sections :
            module.v.body.sections[i].class = "TypeSection" =>
              /\ FramesOf(SubSeq(output.v, 9, Len(output.v)))[i].kind = TypeSection_kind
              /\ IsTypes(FramesOf(SubSeq(output.v, 9, Len(output.v)))[i].payload,
                         module.v.body.sections[i].descriptors)
              /\ (pc = "done" /\ ~mutated) =>
                   /\ module2.ok
                   /\ module2.v.body.sections[i] = module.v.body.sections[i]

\* a struct type after the prefix 0x50, decoded, written and decoded again
C27_Witness ==
  /\ pc = "done"
  /\ ~mutated
  /\ input = WasmHeader \o <<\h01, \h06, \h01, \h50, \h5E, \h01, \h7F, \h01>>
  /\ module.v.body.sections[1].descriptors[1].prefix = \h50
  /\ module.v.body.sections[1].descriptors[1].subtypes = <<>>
  /\ module2.v.body.sections[1] = module.v.body.sections[1]

(***************************************************************************)
(* C28: termination of the LEB128 reads (checked under SpecLoop)           *)
(***************************************************************************)

\* the bytes the read has consumed all carry the continuation bit
Continued(bytes, n) == \A i \in 1..n : bytes[i] >= 128

\* the input ends before a byte without the continuation bit, and before
\* the tenth byte
EndsEarly(bytes) == Len(bytes) < 10 /\ Continued(bytes, Len(bytes))

C28_ReadBound ==
  /\ lebPc \in {"reading", "returned", "thrown"} =>
       /\ lebSize <= 10
       /\ lebSize <= Len(lebBytes)
  /\ lebPc = "reading" =>
       /\ lebSize < 10
       /\ Continued(lebBytes, lebSize)
  /\ lebPc = "returned" =>
       /\ lebSize >= 1
       /\ Continued(lebBytes, lebSize - 1)
       /\ lebSize < 10 => lebBytes[lebSize] < 128
       /\ lebRes.ok
       /\ lebRes.c.offset = lebSize
       /\ lebRes.c.bytes = lebBytes
  /\ lebPc = "thrown" =>
       /\ ~lebRes.ok
       /\ \/ /\ lebSize = Len(lebBytes)
             /\ EndsEarly(lebBytes)
             /\ lebRes = Throw("CursorReadLengthOverflowError")
          \/ /\ lebSize >= 1
             /\ ~EndsEarly(lebBytes)
             /\ lebRes.v = "Value exceeds " \o lebCodec \o " range"
  /\ (lebPc \in {"returned", "thrown"} /\ EndsEarly(lebBytes)) =>
       lebPc = "thrown"
  /\ lebPc \in {"returned", "thrown"} =>
       LET r == LEB128_readOrThrow(lebCodec, Cursor(lebBytes))
       IN /\ r.ok = lebRes.ok
          /\ r.v = IF r.ok /\ lebCodec \in {"U32", "I32", "I33"}
                   THEN Number(lebRes.v) ELSE lebRes.v
          /\ r.ok => r.c.offset = lebSize

C29_LoopAdvances ==
  (lebPc \in {"sizing", "writing"} /\ (lebSize >= 1 \/ lebBytes # <<>>)) =>
    \/ Shr7(lebLoop) = BigZero
    \/ Shr7(lebLoop) # lebLoop

\* C29: sizeOrThrow and writeOrThrow of a value a host assigned to a field
\* written as unsigned LEB128, a negative integer included, end: every
\* iteration brings the value nearer to 0n, and the size loop and then the
\* write loop reach their exit condition.
C29_SizeAndWriteTerminate ==
  /\ []C29_LoopAdvances
  /\ (lebPc \in {"sizing", "writing"}) ~> (lebPc = "written")

(***************************************************************************)
(* C30: one section per frame, in order                                    *)
(***************************************************************************)

\* the bytes after the 8-byte header
BodyOf(bytes) == SubSeq(bytes, 9, Len(bytes))

\* the kind bytes of the frames, in order
KindsOf(bytes) ==
  LET frames == FramesOf(bytes) IN [i \in DOMAIN frames |-> frames[i].kind]

\* the frame decoded on its own, as the payload of its kind
AloneOf(frame) == Section_readOrThrow(frame.kind, frame.payload)

\* C30: Body.readOrThrow returns one section per frame, the i-th section
\* decoded from the i-th frame, and Body.writeOrThrow emits one frame per
\* element of the list, the i-th frame written from the i-th element; frames
\* of repeated kinds or in any order of kinds decode whenever each frame
\* decodes on its own, and the written frames keep the order of the input.
C30_OneSectionPerFrame ==
  /\ (pc # "init" /\ HeaderGood(input) /\ IsFrames(BodyOf(input)) /\ ~mutated) =>
       LET frames == FramesOf(BodyOf(input))
       IN /\ module.ok <=> \A i \in DOMAIN frames : AloneOf(frames[i]).ok
          /\ module.ok =>
               /\ Len(module.v.body.sections) = Len(frames)
               /\ \A i \in DOMAIN frames :
                    /\ module.v.body.sections[i] = AloneOf(frames[i]).v
                    /\ Section_kind(module.v.body.sections[i]) = frames[i].kind
  /\ pc \in {"written", "done"} =>
       LET sections == module.v.body.sections
           written == BodyOf(output.v)
       IN /\ IsFrames(written)
          /\ Len(FramesOf(written)) = Len(sections)
          /\ \A i \in DOMAIN sections :
               /\ FramesOf(written)[i].kind = Section_kind(sections[i])
               /\ FramesOf(written)[i].payload = Section_writeOrThrow(sections[i])
  /\ (pc \in {"written", "done"} /\ ~mutated /\ IsFrames(BodyOf(input))) =>
       KindsOf(BodyOf(output.v)) = KindsOf(BodyOf(input))
  /\ (pc = "done" /\ ~mutated /\ module2.ok /\ IsFrames(BodyOf(input))) =>
       [i \in DOMAIN module2.v.body.sections |->
          Section_kind(module2.v.body.sections[i])] = KindsOf(BodyOf(input))

\* two start sections: decoded to two sections, written as two frames
C30_Witness ==
  /\ pc = "done"
  /\ ~mutated
  /\ input = (WasmHeader \o <<8, 1, 5>>) \o <<8, 1, 5>>
  /\ Len(module.v.body.sections) = 2
  /\ output.v = input
  /\ module2.ok

====
